---- MODULE Spec2Model ----
(***************************************************************************)
(* Smart-locker backend (server.js): the locker registry, the deposit      *)
(* protocol with its one-time token, the command poll, and the tracking    *)
(* number validation cache.                                                *)
(*                                                                         *)
(* Every request handler is an async function.  Between two awaits the     *)
(* JavaScript of one handler runs without interruption, so one action of   *)
(* the model is one store operation (findOne / create / save) followed by  *)
(* the synchronous code up to the next await.  A handler invocation is a   *)
(* slot of reqs; its pc names the await it is suspended at.                *)
(*                                                                         *)
(* Store writes follow Mongoose: doc.save() sends only the modified paths  *)
(* ($set of assigned fields, $push of pushed array elements).  The locker  *)
(* schema keeps the default version key (__v, field v below): a save that  *)
(* overwrites an array is conditional on the version read and increments   *)
(* it, a save that only pushes increments it unconditionally.  The         *)
(* shipment schema sets versionKey: false, so its saves are unconditional. *)
(*                                                                         *)
(* Left out: the endpoints that delete documents (housekeeping); and the   *)
(* courier and user collections, push notifications, locker.debugInfo and  *)
(* the locker auto-assignment of a tracking record, none of which writes a *)
(* field that the model keeps.  getLocker's findOne-then-create and the    *)
(* findOne-then-create of one shipment in POST /api/shipments are each one *)
(* step, pendingResi is a set, and all shipments carry one courierPlate.   *)
(*                                                                         *)
(* A store operation succeeds, with two exceptions: a versioned locker     *)
(* save that meets a newer __v, and the CustomerTracking.create of a newly *)
(* validated tracking number, which may be rejected.                       *)
(***************************************************************************)
EXTENDS Integers, Sequences, FiniteSets, TLC

\* ---------------------------------------------------------------- bounds
MaxTokens == 4          \* tokens randomToken hands out in one behaviour
MaxLogEvents == 1       \* locker log events posted in one behaviour
MaxSessions == 1        \* weight sessions started at one locker
MaxRestarts == 2        \* ... where a start replaces a session
MaxReadings == 3        \* readings pushed into one weight session
MaxReadingsInFlight == 2 \* ... while two requests are in flight
MaxRecords == 2         \* documents in customer_trackings
MaxValidations == 2     \* provider confirmations in one behaviour

\* ------------------------------------------------------------ input sets
LockerIds == {"L1", "L2"}
ReqIds == {"q1", "q2"}
NoToken == 0            \* a token value no locker was ever given
NoWeight == -1          \* weight null (schema default) or absent from the body
DepositWeights == {NoWeight, 20004}
LogEvents == {"locker_closed", "opened_by_customer"}

VARIABLES
  lockers,      \* collection "lockers": lockerId -> document
  shipments,    \* collection "shipments": resi -> document
  reqs,         \* handler invocations: parameters, position, locals, response
  nextToken,    \* number of tokens randomToken has produced
  now,          \* logical clock behind command.createdAt
  logEvents,    \* number of locker log events posted
  sessions,     \* weightSessions: lockerId -> session of the load cell
  trackings     \* collection "customer_trackings", in insertion order

vars == <<lockers, shipments, reqs, nextToken, now, logEvents, sessions, trackings>>

\* ------------------------------------------------------------ documents
NoCmd == [type |-> "none", resi |-> "", source |-> "", createdAt |-> 0]

OpenCmd(x, src, t) == [type |-> "open", resi |-> x, source |-> src, createdAt |-> t]

NewLocker(tok) ==
  [lockerToken |-> tok, pendingResi |-> {}, courierHistory |-> <<>>,
   command |-> NoCmd, heartbeat |-> FALSE, v |-> 0]

NewShipment(l) ==
  [lockerId |-> l, status |-> "pending_locker", weight |-> NoWeight,
   logs |-> <<"assigned_to_locker">>]

\* A history entry that does not keep the token
HistoryEntryWithoutToken(x, tok) == [resi |-> x, usedToken |-> NoToken]

HistoryEntry(x, tok) == [resi |-> x, usedToken |-> tok]

\* randomToken: 6 random bytes behind the locker prefix, modelled as a value
\* that was never produced before.
randomToken == nextToken + 1

\* ------------------------------------------------------------- requests
\* A weight session; id 0 is the absence of an entry in the map
NoSession == [id |-> 0, resi |-> "", readings |-> << >>, active |-> FALSE]

\* binderbyteData: the provider's summary of a carrier, and when it was taken
NoData == [courier |-> "", validatedAt |-> 0]

\* lockerId, resi, token, weight, event, user, jne: the request's parameters.
\* v, pending, cmd, tok, push, seen: what the handler's in-memory locker and
\* shipment documents hold.  sid, pkg: the session object and the package
\* weight a finalize holds.  rec, idx, carrier, data: the record, the position
\* in courierPriority, validCourier and binderbyteResult of a validation.
\* resp, info, out: the response.
Idle == [op |-> "idle", pc |-> "done", lockerId |-> "", resi |-> "", token |-> NoToken,
         weight |-> NoWeight, event |-> "", user |-> "", jne |-> << >>,
         v |-> 0, pending |-> {}, cmd |-> NoCmd, tok |-> NoToken, push |-> FALSE,
         seen |-> "", sid |-> 0, pkg |-> NoWeight, rec |-> 0, idx |-> 0,
         carrier |-> "", data |-> NoData, resp |-> "", info |-> "", out |-> NoToken]

NewReq(o, p, l, x, t, w, e) ==
  [Idle EXCEPT !.op = o, !.pc = p, !.lockerId = l, !.resi = x, !.token = t,
               !.weight = w, !.event = e]

\* The in-memory locker document after a read of the stored one
Loaded(q, p, lk) ==
  [q EXCEPT !.pc = p, !.v = lk.v, !.pending = lk.pendingResi, !.cmd = lk.command,
            !.tok = lk.lockerToken]

\* res.status(...).json(...): the response kind and its diagnostic field
Respond(q, kind, inf) ==
  [NewReq(q.op, "done", q.lockerId, q.resi, q.token, q.weight, q.event)
     EXCEPT !.user = q.user, !.jne = q.jne, !.resp = kind, !.info = inf]

Init ==
  /\ lockers = << >>
  /\ shipments = << >>
  /\ reqs = [r \in ReqIds |-> Idle]
  /\ nextToken = 0
  /\ now = 0
  /\ logEvents = 0
  /\ sessions = [l \in LockerIds |-> NoSession]
  /\ trackings = << >>

\* getLocker / the find-or-create of the token endpoint: the stored locker,
\* or a new one with a fresh token
HasLocker(l) == l \in DOMAIN lockers

GetLocker(l) == IF HasLocker(l) THEN lockers[l] ELSE NewLocker(randomToken)

CreateIfMissing(l) ==
  IF HasLocker(l)
    THEN UNCHANGED <<lockers, nextToken>>
    ELSE /\ nextToken < MaxTokens
         /\ lockers' = (l :> NewLocker(randomToken)) @@ lockers
         /\ nextToken' = nextToken + 1

\* ---------------------------------------- GET /api/locker/:lockerId/token
StartToken(r, l) ==
  /\ reqs[r].pc = "done"
  /\ reqs' = [reqs EXCEPT ![r] = NewReq("token", "findLocker", l, "", NoToken, NoWeight, "")]
  /\ UNCHANGED <<lockers, shipments, nextToken, now, logEvents, sessions, trackings>>

TokenFindLocker(r) ==
  LET q == reqs[r] l == q.lockerId IN
  /\ q.op = "token" /\ q.pc = "findLocker"
  /\ CreateIfMissing(l)
  /\ reqs' = [reqs EXCEPT ![r] = Loaded(q, "saveLocker", GetLocker(l))]
  /\ UNCHANGED <<shipments, now, logEvents, sessions, trackings>>

\* A save that writes the whole in-memory document back
HeartbeatSavedWhole(stored, q) ==
  [stored EXCEPT !.heartbeat = TRUE, !.lockerToken = q.tok]

\* locker.lastHeartbeat = now; locker.status = "online"; await locker.save()
HeartbeatSaved(stored, q) == [stored EXCEPT !.heartbeat = TRUE]

TokenSaveLocker(r) ==
  LET q == reqs[r] l == q.lockerId IN
  /\ q.op = "token" /\ q.pc = "saveLocker"
  /\ lockers' = [lockers EXCEPT ![l] = HeartbeatSaved(@, q)]
  /\ reqs' = [reqs EXCEPT ![r] = [Respond(q, "ok", "") EXCEPT !.out = q.tok]]
  /\ UNCHANGED <<shipments, nextToken, now, logEvents, sessions, trackings>>

\* -------------------------------- GET /api/locker/:lockerId/command (poll)
StartCommand(r, l) ==
  /\ reqs[r].pc = "done"
  /\ reqs' = [reqs EXCEPT ![r] = NewReq("command", "getLocker", l, "", NoToken, NoWeight, "")]
  /\ UNCHANGED <<lockers, shipments, nextToken, now, logEvents, sessions, trackings>>

CommandGetLocker(r) ==
  LET q == reqs[r] l == q.lockerId IN
  /\ q.op = "command" /\ q.pc = "getLocker"
  /\ CreateIfMissing(l)
  /\ reqs' = [reqs EXCEPT ![r] =
       IF GetLocker(l).command = NoCmd
         THEN Respond(q, "none", "")
         ELSE Loaded(q, "saveLocker", GetLocker(l))]
  /\ UNCHANGED <<shipments, now, logEvents, sessions, trackings>>

\* A poll that hands the command out and leaves it stored
CommandKept(stored, q) == stored

\* locker.command = null; await locker.save()
CommandCleared(stored, q) == [stored EXCEPT !.command = NoCmd]

\* ... and the command that was read is the response
CommandSaveLocker(r) ==
  LET q == reqs[r] l == q.lockerId IN
  /\ q.op = "command" /\ q.pc = "saveLocker"
  /\ lockers' = [lockers EXCEPT ![l] = CommandCleared(@, q)]
  /\ reqs' = [reqs EXCEPT ![r] = [Respond(q, q.cmd.type, q.cmd.resi) EXCEPT !.cmd = q.cmd]]
  /\ UNCHANGED <<shipments, nextToken, now, logEvents, sessions, trackings>>

\* ------------------------------- POST /api/locker/:lockerId/heartbeat
StartHeartbeat(r, l) ==
  /\ reqs[r].pc = "done"
  /\ reqs' = [reqs EXCEPT ![r] = NewReq("heartbeat", "findLocker", l, "", NoToken, NoWeight, "")]
  /\ UNCHANGED <<lockers, shipments, nextToken, now, logEvents, sessions, trackings>>

HeartbeatFindLocker(r) ==
  LET q == reqs[r] l == q.lockerId IN
  /\ q.op = "heartbeat" /\ q.pc = "findLocker"
  /\ reqs' = [reqs EXCEPT ![r] =
       IF HasLocker(l) THEN Loaded(q, "saveLocker", lockers[l])
                       ELSE Respond(q, "LockerNotFound", "")]
  /\ UNCHANGED <<lockers, shipments, nextToken, now, logEvents, sessions, trackings>>

HeartbeatSaveLocker(r) ==
  LET q == reqs[r] l == q.lockerId IN
  /\ q.op = "heartbeat" /\ q.pc = "saveLocker"
  /\ lockers' = [lockers EXCEPT ![l] = HeartbeatSaved(@, q)]
  /\ reqs' = [reqs EXCEPT ![r] = Respond(q, "ok", "")]
  /\ UNCHANGED <<shipments, nextToken, now, logEvents, sessions, trackings>>

\* ------------------------------------------------- POST /api/shipments
\* One tracking number per call (resiList of length 1), no courierId.
StartAssign(r, l, x) ==
  /\ reqs[r].pc = "done"
  /\ reqs' = [reqs EXCEPT ![r] = NewReq("assign", "getLocker", l, x, NoToken, NoWeight, "")]
  /\ UNCHANGED <<lockers, shipments, nextToken, now, logEvents, sessions, trackings>>

AssignGetLocker(r) ==
  LET q == reqs[r] l == q.lockerId IN
  /\ q.op = "assign" /\ q.pc = "getLocker"
  /\ CreateIfMissing(l)
  /\ reqs' = [reqs EXCEPT ![r] = Loaded(q, "findShipment", GetLocker(l))]
  /\ UNCHANGED <<shipments, now, logEvents, sessions, trackings>>

\* An existing shipment is put (back) into pendingResi unless it is completed
\* or delivered_to_locker
Repending(sh) == sh.status # "completed" /\ sh.status # "delivered_to_locker"

\* Shipment.findOne({resi}) and, when there is none, Shipment.create(...)
AssignFindShipment(r) ==
  LET q == reqs[r] l == q.lockerId x == q.resi IN
  /\ q.op = "assign" /\ q.pc = "findShipment"
  /\ IF x \in DOMAIN shipments
       THEN /\ reqs' = [reqs EXCEPT ![r] = [q EXCEPT !.pc = "saveLocker",
                 !.push = x \notin q.pending /\ Repending(shipments[x])]]
            /\ UNCHANGED shipments
       ELSE /\ shipments' = (x :> NewShipment(l)) @@ shipments
            /\ reqs' = [reqs EXCEPT ![r] = [q EXCEPT !.pc = "saveLocker",
                 !.push = x \notin q.pending]]
  /\ UNCHANGED <<lockers, nextToken, now, logEvents, sessions, trackings>>

\* locker.save(): $push pendingResi and $inc __v when the resi was pushed
AssignSaved(stored, q) ==
  IF q.push THEN [stored EXCEPT !.pendingResi = @ \cup {q.resi}, !.v = @ + 1]
            ELSE stored

AssignSaveLocker(r) ==
  LET q == reqs[r] l == q.lockerId IN
  /\ q.op = "assign" /\ q.pc = "saveLocker"
  /\ lockers' = [lockers EXCEPT ![l] = AssignSaved(@, q)]
  /\ reqs' = [reqs EXCEPT ![r] = Respond(q, "ok", "")]
  /\ UNCHANGED <<shipments, nextToken, now, logEvents, sessions, trackings>>

\* ----------- POST /api/courier/deposit-token, POST /api/courier/deposit-resi
StartDepositToken(r, l, t, x, w) ==
  /\ reqs[r].pc = "done"
  /\ reqs' = [reqs EXCEPT ![r] = NewReq("depositToken", "findLocker", l, x, t, w, "")]
  /\ UNCHANGED <<lockers, shipments, nextToken, now, logEvents, sessions, trackings>>

StartDepositResi(r, l, t, x) ==
  /\ reqs[r].pc = "done"
  /\ reqs' = [reqs EXCEPT ![r] = NewReq("depositResi", "findLocker", l, x, t, NoWeight, "")]
  /\ UNCHANGED <<lockers, shipments, nextToken, now, logEvents, sessions, trackings>>

\* A handler that lets every token pass
TokenMatchesAny(lk, t) == TRUE

\* !locker.lockerToken || locker.lockerToken !== lockerToken.trim()
TokenMatches(lk, t) == lk.lockerToken # NoToken /\ lk.lockerToken = t

\* Locker.findOne({lockerId}) and the token comparison
DepositFindLocker(r) ==
  LET q == reqs[r] l == q.lockerId IN
  /\ q.op \in {"depositToken", "depositResi"} /\ q.pc = "findLocker"
  /\ reqs' = [reqs EXCEPT ![r] =
       IF ~HasLocker(l) THEN Respond(q, "LockerNotFound", "")
       ELSE IF ~TokenMatches(lockers[l], q.token) THEN Respond(q, "TokenInvalid", "")
       ELSE Loaded(q, "findShipment", lockers[l])]
  /\ UNCHANGED <<lockers, shipments, nextToken, now, logEvents, sessions, trackings>>

\* A lookup by tracking number alone
FoundAnywhere(x, l) == x \in DOMAIN shipments

\* The filter of Shipment.findOne({resi, lockerId})
FoundAtLocker(x, l) == x \in DOMAIN shipments /\ shipments[x].lockerId = l

\* A deposit handler without the status check
AnyStatus(sh) == TRUE

\* shipment.status !== "pending_locker" is the InvalidState rejection
AwaitingDeposit(sh) == sh.status = "pending_locker"

\* A handler that saves the auto-fix of pendingResi before the status check
DepositFindShipmentFixingFirst(r) ==
  LET q == reqs[r] l == q.lockerId x == q.resi IN
  /\ q.op \in {"depositToken", "depositResi"} /\ q.pc = "findShipment"
  /\ reqs' = [reqs EXCEPT ![r] =
       IF FoundAtLocker(x, l)
         THEN IF ~AwaitingDeposit(shipments[x])
                THEN Respond(q, "InvalidState", shipments[x].status)
                ELSE [q EXCEPT !.pc = "saveShipment", !.pending = @ \cup {x}]
         ELSE [q EXCEPT !.pc = "findShipmentAny"]]
  /\ lockers' = IF FoundAtLocker(x, l)
                  THEN [lockers EXCEPT ![l].pendingResi = @ \cup {x}]
                  ELSE lockers
  /\ UNCHANGED <<shipments, nextToken, now, logEvents, sessions, trackings>>

\* Shipment.findOne({resi, lockerId}), the status check and the auto-fix of
\* the in-memory pendingResi
DepositFindShipment(r) ==
  LET q == reqs[r] l == q.lockerId x == q.resi IN
  /\ q.op \in {"depositToken", "depositResi"} /\ q.pc = "findShipment"
  /\ reqs' = [reqs EXCEPT ![r] =
       IF FoundAtLocker(x, l)
         THEN IF ~AwaitingDeposit(shipments[x])
                THEN Respond(q, "InvalidState", shipments[x].status)
                ELSE [q EXCEPT !.pc = "saveShipment", !.pending = @ \cup {x}]
         ELSE [q EXCEPT !.pc = "findShipmentAny"]]
  /\ UNCHANGED <<lockers, shipments, nextToken, now, logEvents, sessions, trackings>>

\* Shipment.findOne({resi}): the shipment of another locker, or none at all
DepositFindShipmentAny(r) ==
  LET q == reqs[r] x == q.resi IN
  /\ q.op \in {"depositToken", "depositResi"} /\ q.pc = "findShipmentAny"
  /\ reqs' = [reqs EXCEPT ![r] =
       IF x \in DOMAIN shipments
         THEN Respond(q, "WrongLocker", shipments[x].lockerId)
         ELSE Respond(q, "ShipmentNotFound", "")]
  /\ UNCHANGED <<lockers, shipments, nextToken, now, logEvents, sessions, trackings>>

\* ------------------ POST /api/locker/:lockerId/deposit (token + resi, old)
StartLockerDeposit(r, l, t, x) ==
  /\ reqs[r].pc = "done"
  /\ reqs' = [reqs EXCEPT ![r] = NewReq("lockerDeposit", "getLocker", l, x, t, NoWeight, "")]
  /\ UNCHANGED <<lockers, shipments, nextToken, now, logEvents, sessions, trackings>>

\* getLocker, token !== locker.lockerToken, !locker.pendingResi.includes(resi)
LockerDepositGetLocker(r) ==
  LET q == reqs[r] l == q.lockerId lk == GetLocker(l) IN
  /\ q.op = "lockerDeposit" /\ q.pc = "getLocker"
  /\ CreateIfMissing(l)
  /\ reqs' = [reqs EXCEPT ![r] =
       IF q.token # lk.lockerToken THEN Respond(q, "TokenInvalid", "")
       ELSE IF q.resi \notin lk.pendingResi THEN Respond(q, "NotPending", "")
       ELSE Loaded(q, "findShipment", lk)]
  /\ UNCHANGED <<shipments, now, logEvents, sessions, trackings>>

\* Shipment.findOne({resi})
LockerDepositFindShipment(r) ==
  LET q == reqs[r] x == q.resi IN
  /\ q.op = "lockerDeposit" /\ q.pc = "findShipment"
  /\ reqs' = [reqs EXCEPT ![r] =
       IF x \in DOMAIN shipments THEN [q EXCEPT !.pc = "saveShipment"]
                                 ELSE Respond(q, "ShipmentNotFound", "")]
  /\ UNCHANGED <<lockers, shipments, nextToken, now, logEvents, sessions, trackings>>

\* --------------------- POST /api/courier/deposit (token + plate, old)
\* Every shipment of the model carries the same courierPlate and the request
\* presents that plate.
StartDepositPlate(r, t) ==
  /\ reqs[r].pc = "done"
  /\ reqs' = [reqs EXCEPT ![r] = NewReq("depositPlate", "findLocker", "", "", t, NoWeight, "")]
  /\ UNCHANGED <<lockers, shipments, nextToken, now, logEvents, sessions, trackings>>

\* Locker.findOne({lockerToken})
DepositPlateFindLocker(r) ==
  LET q == reqs[r] IN
  /\ q.op = "depositPlate" /\ q.pc = "findLocker"
  /\ \/ /\ \A l \in DOMAIN lockers : lockers[l].lockerToken # q.token
        /\ reqs' = [reqs EXCEPT ![r] = Respond(q, "LockerNotFound", "")]
     \/ \E l \in DOMAIN lockers :
          /\ lockers[l].lockerToken = q.token
          /\ reqs' = [reqs EXCEPT ![r] =
               [Loaded(q, "findShipment", lockers[l]) EXCEPT !.lockerId = l]]
  /\ UNCHANGED <<lockers, shipments, nextToken, now, logEvents, sessions, trackings>>

\* Shipment.findOne({courierPlate, status: "pending_locker", lockerId})
DepositPlateFindShipment(r) ==
  LET q == reqs[r]
      match == {x \in DOMAIN shipments : /\ shipments[x].lockerId = q.lockerId
                                         /\ shipments[x].status = "pending_locker"}
  IN
  /\ q.op = "depositPlate" /\ q.pc = "findShipment"
  /\ \/ /\ match = {}
        /\ reqs' = [reqs EXCEPT ![r] = Respond(q, "ShipmentNotFound", "")]
     \/ \E x \in match :
          reqs' = [reqs EXCEPT ![r] = [q EXCEPT !.pc = "saveShipment", !.resi = x]]
  /\ UNCHANGED <<lockers, shipments, nextToken, now, logEvents, sessions, trackings>>

\* --------------------------------------------- the writes of a deposit
\* weight && !isNaN(weight) && weight > 0
WeightGiven(w) == w # NoWeight /\ w > 0

\* parseFloat(w.toFixed(3)) for w >= 0: the nearest multiple of a gram.  A
\* value exactly between two grams is rounded by its binary expansion; the
\* weights of the model are not such values.
ToFixed3(w) == ((w + 5) \div 10) * 10

\* shipment.save(): $set status (and weight, deposit-token only), $push logs
Deposited(sh, q) ==
  [sh EXCEPT
     !.status = "delivered_to_locker",
     !.weight = IF q.op = "depositToken" /\ WeightGiven(q.weight) THEN ToFixed3(q.weight)
               ELSE @,
     !.logs = Append(@, "delivered_to_locker")]

DepositSaveShipment(r) ==
  LET q == reqs[r] x == q.resi IN
  /\ q.op \in {"depositToken", "depositResi", "depositPlate", "lockerDeposit"}
  /\ q.pc = "saveShipment"
  /\ shipments' = [shipments EXCEPT ![x] = Deposited(@, q)]
  /\ reqs' = [reqs EXCEPT ![r] = [q EXCEPT !.pc = "saveLocker"]]
  /\ UNCHANGED <<lockers, nextToken, now, logEvents, sessions, trackings>>

CommandSource(o) ==
  CASE o = "depositToken" -> "courier_token"
    [] o = "depositResi" -> "courier_resi"
    [] OTHER -> "courier"

\* A deposit that leaves the token in place
RotatedKeepingToken(stored, q, fresh, t) ==
  [stored EXCEPT
     !.courierHistory = Append(@, HistoryEntry(q.resi, q.token)),
     !.command = OpenCmd(q.resi, CommandSource(q.op), t),
     !.pendingResi = q.pending \ {q.resi},
     !.v = @ + 1]

\* locker.save() of a deposit: courierHistory $push, command and lockerToken
\* $set, pendingResi overwritten by the filtered in-memory array
Rotated(stored, q, fresh, t) ==
  [stored EXCEPT
     !.courierHistory = Append(@, HistoryEntry(q.resi, q.token)),
     !.command = OpenCmd(q.resi, CommandSource(q.op), t),
     !.pendingResi = q.pending \ {q.resi},
     !.lockerToken = fresh,
     !.v = @ + 1]

\* The overwrite of pendingResi makes the save conditional on __v; a stale
\* version is a VersionError, caught as a 500.
VersionOk(stored, q) == stored.v = q.v

DepositSaveLocker(r) ==
  LET q == reqs[r] l == q.lockerId IN
  /\ q.op \in {"depositToken", "depositResi", "depositPlate", "lockerDeposit"}
  /\ q.pc = "saveLocker"
  /\ IF VersionOk(lockers[l], q)
       THEN /\ nextToken < MaxTokens
            /\ lockers' = [lockers EXCEPT ![l] = Rotated(@, q, randomToken, now + 1)]
            /\ nextToken' = nextToken + 1
            /\ now' = now + 1
            /\ reqs' = [reqs EXCEPT ![r] = [Respond(q, "ok", "") EXCEPT !.out = randomToken]]
       ELSE /\ reqs' = [reqs EXCEPT ![r] = Respond(q, "InternalError", "")]
            /\ UNCHANGED <<lockers, nextToken, now>>
  /\ UNCHANGED <<shipments, logEvents, sessions, trackings>>

\* ------------------------------------ POST /api/locker/:lockerId/log
StartLog(r, l, e, x) ==
  /\ reqs[r].pc = "done"
  /\ logEvents < MaxLogEvents
  /\ logEvents' = logEvents + 1
  /\ reqs' = [reqs EXCEPT ![r] = NewReq("log", "findShipment", l, x, NoToken, NoWeight, e)]
  /\ UNCHANGED <<lockers, shipments, nextToken, now, sessions, trackings>>

\* Shipment.findOne({resi}); the status decided on the document just read
LogFindShipment(r) ==
  LET q == reqs[r] x == q.resi IN
  /\ q.op = "log" /\ q.pc = "findShipment"
  /\ reqs' = [reqs EXCEPT ![r] =
       IF x \in DOMAIN shipments
         THEN [q EXCEPT !.pc = "saveShipment", !.seen = shipments[x].status]
         ELSE Respond(q, "ok", "")]
  /\ UNCHANGED <<lockers, shipments, nextToken, now, logEvents, sessions, trackings>>

\* shipment.logs.push(logEntry); the status change; shipment.save()
Logged(sh, q) ==
  [sh EXCEPT
     !.logs = Append(@, q.event),
     !.status = IF q.event = "opened_by_customer" THEN "completed"
                ELSE IF q.event = "locker_closed" /\ q.seen = "delivered_to_locker"
                  THEN "ready_for_pickup"
                ELSE @]

LogSaveShipment(r) ==
  LET q == reqs[r] x == q.resi IN
  /\ q.op = "log" /\ q.pc = "saveShipment"
  /\ shipments' = [shipments EXCEPT ![x] = Logged(@, q)]
  /\ reqs' = [reqs EXCEPT ![r] = Respond(q, "ok", "")]
  /\ UNCHANGED <<lockers, nextToken, now, logEvents, sessions, trackings>>

\* ------------------------------------- weight sessions of the load cell
\* Weights are counted in tenths of a gram (0.0001 kg): a reading keeps the
\* value parseFloat gave it, a stored weight is rounded to three decimals.
MaxReadingWeight == 500000

\* resi.trim().toUpperCase() on the raw inputs of the model
CleanResi(x) ==
  CASE x = " r1" -> "R1"
    [] x = "jt1234567890 " -> "JT1234567890"
    [] x = " " -> ""
    [] OTHER -> x

\* A start that keeps the readings of the session it replaces
StartedKeepingReadings(old, x) ==
  [id |-> old.id + 1, resi |-> x, readings |-> old.readings, active |-> TRUE]

\* weightSessions.set(lockerId, {sessionId, resi, readings: [], active: true})
Started(old, x) ==
  [id |-> old.id + 1, resi |-> x, readings |-> << >>, active |-> TRUE]

\* POST /api/locker/:lockerId/weight/start: no await, the map entry is
\* replaced by a new session object; at most starts sessions per locker
WeightStart(r, l, x, starts) ==
  LET q == NewReq("weightStart", "done", l, x, NoToken, NoWeight, "") IN
  /\ reqs[r].pc = "done"
  /\ IF x = ""
       THEN /\ reqs' = [reqs EXCEPT ![r] = Respond(q, "ValidationError", "")]
            /\ UNCHANGED sessions
       ELSE /\ sessions[l].id < starts
            /\ sessions' = [sessions EXCEPT ![l] = Started(@, CleanResi(x))]
            /\ reqs' = [reqs EXCEPT ![r] = Respond(q, "ok", CleanResi(x))]
  /\ UNCHANGED <<lockers, shipments, nextToken, now, logEvents, trackings>>

\* A handler that takes every value
AnyReading(w) == TRUE

\* isNaN(weightValue) || weightValue < 0 || weightValue > 50
ReadingValid(w) == w >= 0 /\ w <= MaxReadingWeight

SessionActive(l) == sessions[l].id # 0 /\ sessions[l].active

\* POST /api/locker/:lockerId/weight/reading: no await; at most cap readings
\* are pushed into a session
WeightReading(r, l, w, cap) ==
  LET q == NewReq("weightReading", "done", l, "", NoToken, w, "") IN
  /\ reqs[r].pc = "done"
  /\ IF ~ReadingValid(w)
       THEN /\ reqs' = [reqs EXCEPT ![r] = Respond(q, "ValidationError", "")]
            /\ UNCHANGED sessions
       ELSE IF ~SessionActive(l)
         THEN /\ reqs' = [reqs EXCEPT ![r] = Respond(q, "NoSession", "")]
              /\ UNCHANGED sessions
         ELSE /\ Len(sessions[l].readings) < cap
              /\ sessions' = [sessions EXCEPT ![l].readings = Append(@, w)]
              /\ reqs' = [reqs EXCEPT ![r] = Respond(q, "ok", sessions[l].resi)]
  /\ UNCHANGED <<lockers, shipments, nextToken, now, logEvents, trackings>>

Abs(a) == IF a < 0 THEN -a ELSE a

\* A package weight taken from the last two readings
PackageWeightOfLastTwo(readings) ==
  ToFixed3(Abs(readings[Len(readings) - 1] - readings[Len(readings)]))

\* parseFloat(Math.abs(initialWeight - finalWeight).toFixed(3))
PackageWeight(readings) == ToFixed3(Abs(readings[1] - readings[Len(readings)]))

\* A finalize that is content with one reading
OneReading(readings) == Len(readings) >= 1

\* session.readings.length < 2 is the InsufficientReadings rejection
EnoughReadings(readings) == Len(readings) >= 2

\* POST /api/locker/:lockerId/weight/finalize up to its first await: the
\* session checks and the package weight
StartWeightFinalize(r, l) ==
  LET q == NewReq("weightFinalize", "findShipment", l, sessions[l].resi, NoToken,
                  NoWeight, "")
  IN
  /\ reqs[r].pc = "done"
  /\ reqs' = [reqs EXCEPT ![r] =
       IF ~SessionActive(l) THEN Respond(q, "NoSession", "")
       ELSE IF ~EnoughReadings(sessions[l].readings)
         THEN Respond(q, "InsufficientReadings", "")
       ELSE [q EXCEPT !.sid = sessions[l].id,
                      !.pkg = PackageWeight(sessions[l].readings)]]
  /\ UNCHANGED <<lockers, shipments, nextToken, now, logEvents, sessions, trackings>>

\* session.active = false on the session object the handler holds, which is
\* the map's entry only as long as no later start replaced it
Deactivated(q) ==
  [sessions EXCEPT ![q.lockerId] =
     IF @.id = q.sid THEN [@ EXCEPT !.active = FALSE] ELSE @]

\* Shipment.findOne({resi: session.resi}); a shipment that is missing or
\* already has a weight ends the session
WeightFindShipment(r) ==
  LET q == reqs[r] x == q.resi IN
  /\ q.op = "weightFinalize" /\ q.pc = "findShipment"
  /\ IF x \notin DOMAIN shipments
       THEN /\ reqs' = [reqs EXCEPT ![r] = Respond(q, "ShipmentNotFound", "")]
            /\ sessions' = Deactivated(q)
       ELSE IF shipments[x].weight # NoWeight
         THEN /\ reqs' = [reqs EXCEPT ![r] =
                   [Respond(q, "ok", "alreadyRecorded") EXCEPT !.pkg = shipments[x].weight]]
              /\ sessions' = Deactivated(q)
         ELSE /\ reqs' = [reqs EXCEPT ![r] = [q EXCEPT !.pc = "saveShipment"]]
              /\ UNCHANGED sessions
  /\ UNCHANGED <<lockers, shipments, nextToken, now, logEvents, trackings>>

\* shipment.save(): $set weight, $push logs
Weighed(sh, q) ==
  [sh EXCEPT !.weight = q.pkg, !.logs = Append(@, "weight_recorded_differential")]

WeightSaveShipment(r) ==
  LET q == reqs[r] x == q.resi IN
  /\ q.op = "weightFinalize" /\ q.pc = "saveShipment"
  /\ shipments' = [shipments EXCEPT ![x] = Weighed(@, q)]
  /\ sessions' = Deactivated(q)
  /\ reqs' = [reqs EXCEPT ![r] = [Respond(q, "ok", "") EXCEPT !.pkg = q.pkg]]
  /\ UNCHANGED <<lockers, nextToken, now, logEvents, trackings>>

\* ------------------------------------ POST /api/customer/open-locker
CustomerIds == {"U1", "U2"}

\* customerId and courierType that POST /api/shipments gave every shipment
ShipmentCustomer == "U1"

ShipmentCourierType == "jnt"

CourierTypes == {"jnt", "jne"}

\* req.user.userId of the auth middleware, resi and courierType of the body
StartOpenLocker(r, u, x, c) ==
  LET q == [NewReq("openLocker", "findShipment", "", x, NoToken, NoWeight, "")
              EXCEPT !.user = u, !.carrier = c]
  IN
  /\ reqs[r].pc = "done"
  /\ reqs' = [reqs EXCEPT ![r] = q]
  /\ UNCHANGED <<lockers, shipments, nextToken, now, logEvents, sessions, trackings>>

\* A lookup by tracking number alone
AnyShipment(x, c, u) == x \in DOMAIN shipments

\* The filter of Shipment.findOne({resi, courierType, customerId: userId})
OwnShipment(x, c, u) ==
  x \in DOMAIN shipments /\ c = ShipmentCourierType /\ u = ShipmentCustomer

OpenFindShipment(r) ==
  LET q == reqs[r] IN
  /\ q.op = "openLocker" /\ q.pc = "findShipment"
  /\ reqs' = [reqs EXCEPT ![r] =
       IF OwnShipment(q.resi, q.carrier, q.user)
         THEN [q EXCEPT !.pc = "updateLocker", !.lockerId = shipments[q.resi].lockerId]
         ELSE Respond(q, "ShipmentNotFound", "")]
  /\ UNCHANGED <<lockers, shipments, nextToken, now, logEvents, sessions, trackings>>

\* An open request that leaves a command in place that was not polled yet
OpenRequestedUnlessPending(stored, q, t) ==
  IF stored.command = NoCmd
    THEN [stored EXCEPT !.command = OpenCmd(q.resi, "customer", t)]
    ELSE stored

\* Locker.findOneAndUpdate({lockerId}, {command: {...}}): one atomic $set,
\* without a version condition
OpenRequested(stored, q, t) ==
  [stored EXCEPT !.command = OpenCmd(q.resi, "customer", t)]

OpenUpdateLocker(r) ==
  LET q == reqs[r] l == q.lockerId IN
  /\ q.op = "openLocker" /\ q.pc = "updateLocker"
  /\ IF HasLocker(l)
       THEN /\ lockers' = [lockers EXCEPT ![l] = OpenRequested(@, q, now)]
            /\ reqs' = [reqs EXCEPT ![r] = [q EXCEPT !.pc = "createLog"]]
       ELSE /\ reqs' = [reqs EXCEPT ![r] = Respond(q, "LockerNotFound", "")]
            /\ UNCHANGED lockers
  /\ UNCHANGED <<shipments, nextToken, now, logEvents, sessions, trackings>>

\* LockerLog.create, a collection the model does not keep, and the response
OpenCreateLog(r) ==
  LET q == reqs[r] IN
  /\ q.op = "openLocker" /\ q.pc = "createLog"
  /\ reqs' = [reqs EXCEPT ![r] = Respond(q, "ok", q.lockerId)]
  /\ UNCHANGED <<lockers, shipments, nextToken, now, logEvents, sessions, trackings>>

\* ------------------------------ POST /api/customer/manual-resi (submit)

\* jneNumber as its characters: absent, five digits, too short, five
\* characters of which the last (10) is not a digit
JneNumbers == {<< >>, <<1, 2, 3, 4, 5>>, <<1, 2, 3>>, <<1, 2, 3, 4, 10>>}

\* A loop that calls for every candidate
HasJneNumberAlways(j) == TRUE

\* jneNumber && /^\d{5}$/.test(jneNumber.trim())
HasJneNumber(j) == Len(j) = 5 /\ \A i \in 1..Len(j) : j[i] \in 0..9

SubmitPriority ==
  <<"jne", "jnt", "sicepat", "anteraja", "ninja", "pos", "tiki", "wahana", "lion", "rpx">>

\* The carriers for which the provider may answer with a summary; for every
\* other carrier each call fails
Answering == {"jne", "jnt"}

\* A loop that starts over with the first candidate when the list is exhausted
NextCandidateWrapping(list, i, j) ==
  LET rest == {k \in i..Len(list) : list[k] # "jne" \/ HasJneNumber(j)}
      all == {k \in 1..Len(list) : list[k] # "jne" \/ HasJneNumber(j)}
  IN
  IF rest = {} THEN CHOOSE k \in all : \A m \in all : k <= m
  ELSE CHOOSE k \in rest : \A m \in rest : k <= m

\* The first position from i on that the loop does not skip: jne is skipped
\* (continue) without a usable jneNumber.  Len(list) + 1 when the loop ends.
NextCandidate(list, i, j) ==
  LET rest == {k \in i..Len(list) : list[k] # "jne" \/ HasJneNumber(j)} IN
  IF rest = {} THEN Len(list) + 1
  ELSE CHOOSE k \in rest : \A m \in rest : k <= m

NewTracking(x, u, c, d) ==
  [resi |-> x, customerId |-> u, courierType |-> c, validated |-> TRUE, data |-> d]

\* A submit without the duplicate-submission lookup
ExistingNever(x, u) == {}

\* The documents a findOne filter matches; which of several matches findOne
\* returns is left to the store
Existing(x, u) ==
  {i \in DOMAIN trackings : trackings[i].resi = x /\ trackings[i].customerId = u}

\* A lookup that never finds a validated record
CachedNever(x) == {}

Cached(x) == {i \in DOMAIN trackings : trackings[i].resi = x /\ trackings[i].validated}

ByResi(x) == {i \in DOMAIN trackings : trackings[i].resi = x}

\* !resi || !resi.trim() is a 400; cleanResi = resi.trim().toUpperCase()
StartSubmit(r, u, x, j) ==
  LET q == [NewReq("submit", "findExisting", "", CleanResi(x), NoToken, NoWeight, "")
              EXCEPT !.user = u, !.jne = j]
  IN
  /\ reqs[r].pc = "done"
  /\ reqs' = [reqs EXCEPT ![r] =
       IF CleanResi(x) = "" THEN Respond(q, "ValidationError", "") ELSE q]
  /\ UNCHANGED <<lockers, shipments, nextToken, now, logEvents, sessions, trackings>>

\* Step 1: CustomerTracking.findOne({resi, customerId})
SubmitFindExisting(r) ==
  LET q == reqs[r] IN
  /\ q.op = "submit" /\ q.pc = "findExisting"
  /\ reqs' = [reqs EXCEPT ![r] =
       IF Existing(q.resi, q.user) # {} THEN Respond(q, "AlreadySubmitted", "")
       ELSE [q EXCEPT !.pc = "findCached"]]
  /\ UNCHANGED <<lockers, shipments, nextToken, now, logEvents, sessions, trackings>>

\* Step 2: CustomerTracking.findOne({resi, validated: true}); on a miss the
\* loop over courierPriority runs up to its first provider call
SubmitFindCached(r) ==
  LET q == reqs[r] IN
  /\ q.op = "submit" /\ q.pc = "findCached"
  /\ IF Cached(q.resi) # {}
       THEN \E i \in Cached(q.resi) :
              reqs' = [reqs EXCEPT ![r] =
                [q EXCEPT !.pc = "createClone", !.carrier = trackings[i].courierType,
                          !.data = trackings[i].data]]
       ELSE reqs' = [reqs EXCEPT ![r] =
              [q EXCEPT !.pc = "callProvider",
                        !.idx = NextCandidate(SubmitPriority, 1, q.jne)]]
  /\ UNCHANGED <<lockers, shipments, nextToken, now, logEvents, sessions, trackings>>

\* CustomerTracking.create of the clone; the response carries fromCache
SubmitCreateClone(r) ==
  LET q == reqs[r] IN
  /\ q.op = "submit" /\ q.pc = "createClone"
  /\ Len(trackings) < MaxRecords
  /\ trackings' = Append(trackings, NewTracking(q.resi, q.user, q.carrier, q.data))
  /\ reqs' = [reqs EXCEPT ![r] =
       [Respond(q, "ok", "fromCache") EXCEPT !.carrier = q.carrier, !.data = q.data]]
  /\ UNCHANGED <<lockers, shipments, nextToken, now, logEvents, sessions>>

\* What one call to the provider comes to: a response with status 200 and a
\* summary; a response without a summary; a timeout; a 404
ProviderAnswers(c) ==
  IF c \in Answering THEN {"summary", "noSummary", "timeout"} ELSE {"notFound"}

\* A loop that takes note of a confirmation and goes on calling
ConfirmedWithoutBreak(q, p, c, t) ==
  [q EXCEPT !.carrier = c, !.data = [courier |-> c, validatedAt |-> t]]

\* The request after a provider call that confirmed carrier c at time t
Confirmed(q, p, c, t) ==
  [q EXCEPT !.pc = p, !.carrier = c, !.data = [courier |-> c, validatedAt |-> t]]

\* A loop that puts the same candidate to the provider again
FailedRetrying(q, next, answer) == [q EXCEPT !.seen = answer]

\* The request after a provider call without a match: whatever went wrong
\* (seen, for the log line), the loop continues with the next candidate
Failed(q, next, answer) == [q EXCEPT !.idx = next, !.seen = answer]

\* One axios.get of the loop.  When the list is exhausted the no-match branch
\* evaluates highConfidence, which is declared nowhere: a ReferenceError,
\* caught by the handler as a 500.
SubmitCallProvider(r) ==
  LET q == reqs[r]
      c == SubmitPriority[q.idx]
      next == NextCandidate(SubmitPriority, q.idx + 1, q.jne)
  IN
  /\ q.op = "submit" /\ q.pc = "callProvider"
  /\ \E answer \in ProviderAnswers(c) :
       IF answer = "summary"
         THEN /\ now < MaxValidations
              /\ now' = now + 1
              /\ reqs' = [reqs EXCEPT ![r] = Confirmed(q, "createRecord", c, now + 1)]
         ELSE /\ reqs' = [reqs EXCEPT ![r] =
                   IF next > Len(SubmitPriority) THEN Respond(q, "InternalError", "")
                   ELSE Failed(q, next, answer)]
              /\ UNCHANGED now
  /\ UNCHANGED <<lockers, shipments, nextToken, logEvents, sessions, trackings>>

\* Step 7: CustomerTracking.create(trackingData)
SubmitCreateRecord(r) ==
  LET q == reqs[r] IN
  /\ q.op = "submit" /\ q.pc = "createRecord"
  /\ Len(trackings) < MaxRecords
  /\ trackings' = Append(trackings, NewTracking(q.resi, q.user, q.carrier, q.data))
  /\ reqs' = [reqs EXCEPT ![r] =
       [Respond(q, "ok", "validated") EXCEPT !.carrier = q.carrier, !.data = q.data]]
  /\ UNCHANGED <<lockers, shipments, nextToken, now, logEvents, sessions>>

\* CustomerTracking.create rejects (the store is unreachable, the write is
\* refused): the exception reaches the handler's catch, a 500
SubmitCreateRecordFails(r) ==
  LET q == reqs[r] IN
  /\ q.op = "submit" /\ q.pc = "createRecord"
  /\ reqs' = [reqs EXCEPT ![r] = Respond(q, "InternalError", "")]
  /\ UNCHANGED <<lockers, shipments, nextToken, now, logEvents, sessions, trackings>>

\* detectCourierType on the tracking numbers of the model, its patterns tried
\* in the order of the source: JT + 10 digits is J&T; twelve digits already
\* match the 10 to 15 alphanumerics of the AnterAja rule, ahead of the SiCepat
\* rule; eight characters with a prefix of no carrier are not detected ("").
\* No handler calls it.
detectCourierType(x) ==
  CASE x = "JT1234567890" -> "jnt"
    [] x = "123456789012" -> "anteraja"
    [] OTHER -> ""

\* ------------------------------ POST /api/manual-resi/revalidate/:resi
\* /^JT\d{10,}/i, /^(JNE|CGK)/i and /^\d{14}$/ on the tracking numbers of the
\* model
MatchesJT(x) == x = "JT1234567890"

MatchesJNE(x) == x = "CGK77"

FourteenDigits(x) == x = "12345678901234"

RevalidatePriority(x) ==
  IF MatchesJT(x) THEN <<"jnt", "jne", "anteraja", "sicepat", "ninja", "pos">>
  ELSE IF MatchesJNE(x) THEN <<"jne", "jnt", "anteraja", "sicepat", "ninja", "pos">>
  ELSE IF FourteenDigits(x) THEN <<"anteraja", "sicepat", "jnt", "jne", "ninja", "pos">>
  ELSE <<"jne", "jnt", "anteraja", "sicepat", "ninja", "pos">>

StartRevalidate(r, x, j) ==
  /\ reqs[r].pc = "done"
  /\ reqs' = [reqs EXCEPT ![r] =
       [NewReq("revalidate", "findTracking", "", CleanResi(x), NoToken, NoWeight, "")
          EXCEPT !.jne = j]]
  /\ UNCHANGED <<lockers, shipments, nextToken, now, logEvents, sessions, trackings>>

\* CustomerTracking.findOne({resi}), whatever its carrier and validated flag
RevalidateFindTracking(r) ==
  LET q == reqs[r] IN
  /\ q.op = "revalidate" /\ q.pc = "findTracking"
  /\ IF ByResi(q.resi) = {}
       THEN reqs' = [reqs EXCEPT ![r] = Respond(q, "NotFound", "")]
       ELSE \E i \in ByResi(q.resi) :
              reqs' = [reqs EXCEPT ![r] =
                [q EXCEPT !.pc = "callProvider", !.rec = i,
                          !.idx = NextCandidate(RevalidatePriority(q.resi), 1, q.jne)]]
  /\ UNCHANGED <<lockers, shipments, nextToken, now, logEvents, sessions, trackings>>

RevalidateCallProvider(r) ==
  LET q == reqs[r]
      list == RevalidatePriority(q.resi)
      c == list[q.idx]
      next == NextCandidate(list, q.idx + 1, q.jne)
  IN
  /\ q.op = "revalidate" /\ q.pc = "callProvider"
  /\ \E answer \in ProviderAnswers(c) :
       IF answer = "summary"
         THEN /\ now < MaxValidations
              /\ now' = now + 1
              /\ reqs' = [reqs EXCEPT ![r] = Confirmed(q, "saveTracking", c, now + 1)]
         ELSE /\ reqs' = [reqs EXCEPT ![r] =
                   IF next > Len(list) THEN Respond(q, "NotFound", "")
                   ELSE Failed(q, next, answer)]
              /\ UNCHANGED now
  /\ UNCHANGED <<lockers, shipments, nextToken, logEvents, sessions, trackings>>

\* tracking.save(): $set courierType, validated, binderbyteData
Revalidated(rec, q) ==
  [rec EXCEPT !.courierType = q.carrier, !.validated = TRUE, !.data = q.data]

RevalidateSaveTracking(r) ==
  LET q == reqs[r] IN
  /\ q.op = "revalidate" /\ q.pc = "saveTracking"
  /\ trackings' = [trackings EXCEPT ![q.rec] = Revalidated(@, q)]
  /\ reqs' = [reqs EXCEPT ![r] =
       [Respond(q, "ok", "validated") EXCEPT !.carrier = q.carrier, !.data = q.data]]
  /\ UNCHANGED <<lockers, shipments, nextToken, now, logEvents, sessions>>

\* ------------------------------------------------------- specifications
\* The steps of one handler invocation in slot r, per endpoint; the inputs
\* are drawn from the lockers LS and the tracking numbers XS, and a presented
\* token is one that was handed out, or NoToken.
TokenOp(r, LS) ==
  \/ \E l \in LS : StartToken(r, l)
  \/ TokenFindLocker(r)
  \/ TokenSaveLocker(r)

CommandOp(r, LS) ==
  \/ \E l \in LS : StartCommand(r, l)
  \/ CommandGetLocker(r)
  \/ CommandSaveLocker(r)

HeartbeatOp(r, LS) ==
  \/ \E l \in LS : StartHeartbeat(r, l)
  \/ HeartbeatFindLocker(r)
  \/ HeartbeatSaveLocker(r)

AssignOp(r, LS, XS) ==
  \/ \E l \in LS, x \in XS : StartAssign(r, l, x)
  \/ AssignGetLocker(r)
  \/ AssignFindShipment(r)
  \/ AssignSaveLocker(r)

DepositTokenOp(r, LS, XS, WS) ==
  \/ \E l \in LS, t \in 0..nextToken, x \in XS, w \in WS : StartDepositToken(r, l, t, x, w)
  \/ DepositFindLocker(r)
  \/ DepositFindShipment(r)
  \/ DepositFindShipmentAny(r)
  \/ DepositSaveShipment(r)
  \/ DepositSaveLocker(r)

DepositResiOp(r, LS, XS) ==
  \E l \in LS, t \in 0..nextToken, x \in XS : StartDepositResi(r, l, t, x)

LockerDepositOp(r, LS, XS) ==
  \/ \E l \in LS, t \in 0..nextToken, x \in XS : StartLockerDeposit(r, l, t, x)
  \/ LockerDepositGetLocker(r)
  \/ LockerDepositFindShipment(r)

DepositPlateOp(r) ==
  \/ \E t \in 0..nextToken : StartDepositPlate(r, t)
  \/ DepositPlateFindLocker(r)
  \/ DepositPlateFindShipment(r)

WeightOp(r, LS, XS, WS, cap, starts) ==
  \/ \E l \in LS, x \in XS : WeightStart(r, l, x, starts)
  \/ \E l \in LS, w \in WS : WeightReading(r, l, w, cap)
  \/ \E l \in LS : StartWeightFinalize(r, l)
  \/ WeightFindShipment(r)
  \/ WeightSaveShipment(r)

SubmitOp(r, US, XS, JS) ==
  \/ \E u \in US, x \in XS, j \in JS : StartSubmit(r, u, x, j)
  \/ SubmitFindExisting(r)
  \/ SubmitFindCached(r)
  \/ SubmitCreateClone(r)
  \/ SubmitCallProvider(r)
  \/ SubmitCreateRecord(r)
  \/ SubmitCreateRecordFails(r)

RevalidateOp(r, XS, JS) ==
  \/ \E x \in XS, j \in JS : StartRevalidate(r, x, j)
  \/ RevalidateFindTracking(r)
  \/ RevalidateCallProvider(r)
  \/ RevalidateSaveTracking(r)

OpenLockerOp(r, US, XS, CS) ==
  \/ \E u \in US, x \in XS, c \in CS : StartOpenLocker(r, u, x, c)
  \/ OpenFindShipment(r)
  \/ OpenUpdateLocker(r)
  \/ OpenCreateLog(r)

LogOp(r, LS, XS) ==
  \/ \E l \in LS, e \in LogEvents, x \in XS : StartLog(r, l, e, x)
  \/ LogFindShipment(r)
  \/ LogSaveShipment(r)

\* Requests handled one after the other, over two lockers and one tracking
\* number
NextSeq ==
  \/ TokenOp("q1", LockerIds)
  \/ CommandOp("q1", LockerIds)
  \/ AssignOp("q1", LockerIds, {"R1"})
  \/ DepositTokenOp("q1", LockerIds, {"R1"}, {NoWeight})
  \/ DepositResiOp("q1", LockerIds, {"R1"})
  \/ LockerDepositOp("q1", LockerIds, {"R1"})
  \/ DepositPlateOp("q1")

SpecSeq == Init /\ [][NextSeq]_vars

\* Requests handled one after the other at one locker: the life cycle of a
\* shipment under assignment, every deposit endpoint and the locker's log
NextLife ==
  \/ AssignOp("q1", {"L1"}, {"R1"})
  \/ DepositTokenOp("q1", {"L1"}, {"R1"}, DepositWeights)
  \/ DepositResiOp("q1", {"L1"}, {"R1"})
  \/ LockerDepositOp("q1", {"L1"}, {"R1"})
  \/ DepositPlateOp("q1")
  \/ LogOp("q1", {"L1"}, {"R1"})

SpecLife == Init /\ [][NextLife]_vars

\* Two requests in flight at one locker, their store operations interleaved
Next ==
  \E r \in ReqIds :
    \/ TokenOp(r, {"L1"})
    \/ CommandOp(r, {"L1"})
    \/ HeartbeatOp(r, {"L1"})
    \/ AssignOp(r, {"L1"}, {"R1"})
    \/ DepositTokenOp(r, {"L1"}, {"R1"}, {NoWeight})
    \/ LogOp(r, {"L1"}, {"R1"})

Spec == Init /\ [][Next]_vars

\* An assignment and the three token-and-resi deposit endpoints in flight at
\* one locker
NextHeal ==
  \E r \in ReqIds :
    \/ AssignOp(r, {"L1"}, {"R1"})
    \/ DepositTokenOp(r, {"L1"}, {"R1"}, {NoWeight})
    \/ DepositResiOp(r, {"L1"}, {"R1"})
    \/ LockerDepositOp(r, {"L1"}, {"R1"})

SpecHeal == Init /\ [][NextHeal]_vars

\* Two requests in flight at one locker: everything that reads or writes the
\* locker document in either slot, and the load cell's weight calls, one at a
\* time, in the second
NextToken ==
  \/ \E r \in ReqIds :
       \/ TokenOp(r, {"L1"})
       \/ CommandOp(r, {"L1"})
       \/ HeartbeatOp(r, {"L1"})
       \/ AssignOp(r, {"L1"}, {"R1"})
       \/ DepositTokenOp(r, {"L1"}, {"R1"}, {NoWeight})
  \/ WeightOp("q2", {"L1"}, {"R1"}, {10000}, MaxReadingsInFlight, MaxSessions)

SpecToken == Init /\ [][NextToken]_vars

\* Two validation requests in flight for one tracking number
NextCache ==
  \/ \E r \in ReqIds :
       SubmitOp(r, CustomerIds, {"JT1234567890"}, {<<1, 2, 3, 4, 5>>})
  \/ RevalidateOp("q2", {"JT1234567890"}, {<<1, 2, 3, 4, 5>>})

SpecCache == Init /\ [][NextCache]_vars

\* Submits handled one after the other: a J&T number, twelve digits, and a
\* number of no known format, with and without a jneNumber
SubmitResis == {"JT1234567890", "123456789012", "ZZ123456"}

NextSubmit == SubmitOp("q1", CustomerIds, SubmitResis, JneNumbers)

SpecSubmit == Init /\ [][NextSubmit]_vars

\* One submit at a time under fairness: every await of a request in flight
\* settles (a store operation resolves or rejects, axios.get resolves or
\* rejects within its timeout of 5000 ms), so a step of the request that is
\* enabled is eventually taken.  A submit is admitted while the collection
\* has room for its record.
SubmitContinues(r) ==
  \/ SubmitFindExisting(r)
  \/ SubmitFindCached(r)
  \/ SubmitCreateClone(r)
  \/ SubmitCallProvider(r)
  \/ SubmitCreateRecord(r)
  \/ SubmitCreateRecordFails(r)

NextSubmitFair ==
  \/ /\ Len(trackings) < MaxRecords
     /\ \E u \in CustomerIds, x \in SubmitResis, j \in JneNumbers : StartSubmit("q1", u, x, j)
  \/ SubmitContinues("q1")

SpecSubmitFair == Init /\ [][NextSubmitFair]_vars /\ WF_vars(SubmitContinues("q1"))

\* Submits and revalidations handled one after the other, for a J&T number
\* (jne second on the revalidation list) and a number of no known format
\* (jne first), with and without a usable jneNumber
NextSkip ==
  \/ SubmitOp("q1", CustomerIds, {"JT1234567890", "ZZ123456"}, JneNumbers)
  \/ RevalidateOp("q1", {"JT1234567890", "ZZ123456"}, JneNumbers)

SpecSkip == Init /\ [][NextSkip]_vars

\* The load cell's calls handled one after the other at one locker: readings
\* that fall, rise and overshoot, with sub-gram digits, and the ends of the
\* accepted range; and what the server turns away: no number at all (NaN), a
\* negative value, more than 50 kg
Readings == {50000, 43004, 60000, 0, MaxReadingWeight, NoWeight, -20, MaxReadingWeight + 1}

NextWeight ==
  \/ AssignOp("q1", {"L1"}, {"R1"})
  \/ WeightOp("q1", {"L1"}, {"R1"}, Readings, MaxReadings, MaxSessions)

SpecWeight == Init /\ [][NextWeight]_vars

\* The load cell's calls handled one after the other at one locker, where a
\* start may find a session of the same or of another tracking number, active
\* or finalized
RestartReadings == {50000, 43004}

NextRestart ==
  \/ AssignOp("q1", {"L1"}, {"R1"})
  \/ WeightOp("q1", {"L1"}, {"R1", "R2"}, RestartReadings, MaxReadingsInFlight,
              MaxRestarts)

SpecRestart == Init /\ [][NextRestart]_vars

\* The load cell's calls in two slots (a finalize and its retry, a reading
\* that arrives meanwhile) next to an assignment and a deposit-token, with
\* or without a weight, at one locker
NextRetry ==
  \/ TokenOp("q1", {"L1"})
  \/ AssignOp("q1", {"L1"}, {"R1"})
  \/ DepositTokenOp("q1", {"L1"}, {"R1"}, DepositWeights)
  \/ \E r \in ReqIds :
       WeightOp(r, {"L1"}, {"R1"}, RestartReadings, MaxReadingsInFlight, MaxSessions)

SpecRetry == Init /\ [][NextRetry]_vars

\* Assignment, token fetch, deposit-token, the customer's open request and
\* the poll handled one after the other at one locker, for two tracking
\* numbers
NextOpen ==
  \/ TokenOp("q1", {"L1"})
  \/ AssignOp("q1", {"L1"}, {"R1", "R2"})
  \/ DepositTokenOp("q1", {"L1"}, {"R1", "R2"}, {NoWeight})
  \/ OpenLockerOp("q1", CustomerIds, {"R1", "R2"}, CourierTypes)
  \/ CommandOp("q1", {"L1"})

SpecOpen == Init /\ [][NextOpen]_vars

\* A poll in either slot while a deposit-token or an open request for the
\* one shipment of the locker is in flight
NextPoll ==
  \/ TokenOp("q1", {"L1"})
  \/ AssignOp("q1", {"L1"}, {"R1"})
  \/ DepositTokenOp("q1", {"L1"}, {"R1"}, {NoWeight})
  \/ OpenLockerOp("q1", CustomerIds, {"R1"}, {ShipmentCourierType})
  \/ \E r \in ReqIds : CommandOp(r, {"L1"})

SpecPoll == Init /\ [][NextPoll]_vars

\* ------------------------------------------------------------ properties
DepositOps == {"depositToken", "depositResi", "depositPlate", "lockerDeposit"}

ResiDepositOps == {"depositToken", "depositResi"}

\* The awaits of a deposit handler behind its token check
AfterTokenCheck == {"findShipment", "findShipmentAny", "saveShipment", "saveLocker"}

\* The tokens some successful deposit presented, as courierHistory records them
UsedTokens ==
  UNION {{lockers[l].courierHistory[i].usedToken :
            i \in 1..Len(lockers[l].courierHistory)} : l \in DOMAIN lockers}

\* Slot r takes a step of its handler
Acts(r) == reqs'[r] # reqs[r]

\* C1: a token that a successful deposit presented is rejected by every later
\* deposit call that presents it, on every deposit endpoint: the call ends at
\* its token check and never reaches the shipment lookup.
C1_UsedTokenRejected ==
  [][\A r \in ReqIds :
       (/\ reqs[r].op \in DepositOps
        /\ reqs[r].pc \in {"findLocker", "getLocker"}
        /\ Acts(r)
        /\ reqs[r].token \in UsedTokens)
       => /\ reqs'[r].pc = "done"
          /\ reqs'[r].resp \in {"TokenInvalid", "LockerNotFound"}]_vars

\* A used token was presented again at the locker that consumed it and the
\* call was rejected as TokenInvalid
C1_Witness ==
  \E r \in ReqIds :
    /\ reqs[r].op \in DepositOps /\ reqs[r].pc = "done"
    /\ reqs[r].resp = "TokenInvalid"
    /\ HasLocker(reqs[r].lockerId)
    /\ \E i \in 1..Len(lockers[reqs[r].lockerId].courierHistory) :
         lockers[reqs[r].lockerId].courierHistory[i].usedToken = reqs[r].token

\* A deposit request holds the token it presented: it is behind its token
\* check, or it has succeeded
TokenAccepted(q) ==
  /\ q.op \in DepositOps
  /\ \/ q.pc \in AfterTokenCheck
     \/ q.pc = "done" /\ q.resp = "ok"

\* C2: of two deposit requests that present the same token for the same
\* locker at most one gets through the token check; check and rotation are
\* one atomic compare-and-swap, so the other one is rejected there.
C2_AtomicCheckAndRotate ==
  \A r1, r2 \in ReqIds :
    (/\ r1 # r2
     /\ reqs[r1].lockerId = reqs[r2].lockerId
     /\ reqs[r1].token = reqs[r2].token)
    => ~(TokenAccepted(reqs[r1]) /\ TokenAccepted(reqs[r2]))

\* C3: the stored token of a locker changes only in the step that completes a
\* successful deposit at that locker, every such step changes it, and the new
\* token differs from the one the deposit presented; token fetch, command
\* poll, heartbeat, assignment, weight calls and failed deposits leave it alone,
\* however their steps interleave with a deposit.
C3_TokenChangesOnlyByDeposit ==
  [][\A l \in DOMAIN lockers :
       /\ lockers'[l].lockerToken # lockers[l].lockerToken
          => \E r \in ReqIds :
               /\ reqs[r].op \in DepositOps /\ reqs[r].pc = "saveLocker"
               /\ reqs[r].lockerId = l
               /\ reqs'[r].pc = "done" /\ reqs'[r].resp = "ok"
               /\ lockers'[l].lockerToken # reqs[r].token
       /\ \A r \in ReqIds :
            (/\ reqs[r].op \in DepositOps /\ reqs[r].lockerId = l
             /\ reqs[r].pc # "done" /\ reqs'[r].resp = "ok")
            => lockers'[l].lockerToken \notin {lockers[l].lockerToken, reqs[r].token}]_vars

\* A deposit has rotated the token while a token fetch, heartbeat or poll that
\* read the locker before the rotation is about to save it
C3_Witness ==
  \E r1, r2 \in ReqIds :
    /\ reqs[r1].op \in DepositOps /\ reqs[r1].pc = "done" /\ reqs[r1].resp = "ok"
    /\ lockers[reqs[r1].lockerId].lockerToken = reqs[r1].out
    /\ reqs[r2].op \in {"token", "heartbeat", "command"}
    /\ reqs[r2].pc = "saveLocker"
    /\ reqs[r2].lockerId = reqs[r1].lockerId
    /\ reqs[r2].tok = reqs[r1].token

\* The shipment status life cycle
Rank(st) ==
  CASE st = "pending_locker" -> 0
    [] st = "delivered_to_locker" -> 1
    [] st = "ready_for_pickup" -> 2
    [] st = "completed" -> 3

\* C4: no step moves the status of a shipment backwards in the life cycle
\* pending_locker, delivered_to_locker, ready_for_pickup, completed.
C4_StatusMonotone ==
  [][\A x \in DOMAIN shipments :
       Rank(shipments'[x].status) >= Rank(shipments[x].status)]_vars

\* The validated records of tracking number x
ValidatedRecords(x) ==
  {i \in DOMAIN trackings : trackings[i].resi = x /\ trackings[i].validated}

\* C5: a submit whose cache lookup runs when the tracking number has a
\* validated record goes on to clone one such record without a provider call:
\* it appends a record for its requester with the carrier and the snapshot of
\* that record and answers fromCache; a submit reaches a provider call only
\* from a lookup that found no validated record.
C5_CacheIdempotence ==
  [][\A r \in ReqIds :
       /\ (/\ reqs[r].op = "submit" /\ reqs[r].pc = "findCached" /\ Acts(r)
           /\ ValidatedRecords(reqs[r].resi) # {})
          => /\ reqs'[r].pc = "createClone"
             /\ \E i \in ValidatedRecords(reqs[r].resi) :
                  /\ reqs'[r].carrier = trackings[i].courierType
                  /\ reqs'[r].data = trackings[i].data
             /\ UNCHANGED <<trackings, now>>
       /\ (reqs[r].op = "submit" /\ reqs[r].pc = "createClone" /\ Acts(r))
          => /\ trackings' = Append(trackings,
                  [resi |-> reqs[r].resi, customerId |-> reqs[r].user,
                   courierType |-> reqs[r].carrier, validated |-> TRUE,
                   data |-> reqs[r].data])
             /\ reqs'[r].pc = "done" /\ reqs'[r].resp = "ok"
             /\ reqs'[r].info = "fromCache"
             /\ reqs'[r].carrier = reqs[r].carrier /\ reqs'[r].data = reqs[r].data
             /\ UNCHANGED now
       /\ (/\ reqs[r].op = "submit" /\ reqs[r].pc \notin {"done", "callProvider"}
           /\ reqs'[r].pc = "callProvider")
          => /\ reqs[r].pc = "findCached"
             /\ ValidatedRecords(reqs[r].resi) = {}]_vars

\* A second requester was answered from the cache: both records exist, with
\* the same carrier and snapshot
C5_Witness ==
  \E r \in ReqIds : \E i, k \in DOMAIN trackings :
    /\ reqs[r].op = "submit" /\ reqs[r].pc = "done"
    /\ reqs[r].resp = "ok" /\ reqs[r].info = "fromCache"
    /\ trackings[i].resi = reqs[r].resi /\ trackings[k].resi = reqs[r].resi
    /\ i < k
    /\ trackings[i].customerId # reqs[r].user
    /\ trackings[k].customerId = reqs[r].user
    /\ trackings[k].courierType = trackings[i].courierType
    /\ trackings[k].data = trackings[i].data
    /\ reqs[r].carrier = trackings[i].courierType

\* C6: no step changes the carrier of a validation record that exists.
C6_CarrierImmutable ==
  [][\A i \in DOMAIN trackings :
       trackings'[i].courierType = trackings[i].courierType]_vars

\* The shipment of tracking number x is registered for a locker other than l
AtOtherLocker(x, l) == x \in DOMAIN shipments /\ shipments[x].lockerId # l

\* C7: a deposit-token or deposit-resi call that passed the token check at
\* locker B for a tracking number registered for locker A # B is answered
\* WrongLocker naming A, and none of its steps writes a locker or a shipment.
C7_WrongLockerDiagnosed ==
  [][\A r \in ReqIds :
       (/\ reqs[r].op \in ResiDepositOps
        /\ reqs[r].pc \in {"findShipment", "findShipmentAny"}
        /\ Acts(r)
        /\ AtOtherLocker(reqs[r].resi, reqs[r].lockerId))
       => /\ UNCHANGED <<lockers, shipments>>
          /\ reqs[r].pc = "findShipment" => reqs'[r].pc = "findShipmentAny"
          /\ reqs[r].pc = "findShipmentAny" =>
               /\ reqs'[r].pc = "done"
               /\ reqs'[r].resp = "WrongLocker"
               /\ reqs'[r].info = shipments[reqs[r].resi].lockerId]_vars

\* A call at one existing locker was answered WrongLocker naming the other
\* locker, where the shipment is registered
C7_Witness ==
  \E r \in ReqIds :
    /\ reqs[r].op \in ResiDepositOps /\ reqs[r].pc = "done"
    /\ reqs[r].resp = "WrongLocker"
    /\ HasLocker(reqs[r].lockerId)
    /\ reqs[r].info # reqs[r].lockerId
    /\ shipments[reqs[r].resi].lockerId = reqs[r].info

\* C8: a deposit that presents the locker's current token for a shipment
\* awaiting deposit at that locker is not turned away because the tracking
\* number is missing from pendingResi, and a successful deposit leaves the
\* tracking number out of pendingResi.
C8_SelfHealingPendingSet ==
  [][\A r \in ReqIds :
       /\ (/\ reqs[r].op \in {"depositToken", "depositResi", "lockerDeposit"}
           /\ reqs[r].pc \in {"findLocker", "getLocker"}
           /\ Acts(r)
           /\ HasLocker(reqs[r].lockerId)
           /\ TokenMatches(lockers[reqs[r].lockerId], reqs[r].token)
           /\ FoundAtLocker(reqs[r].resi, reqs[r].lockerId)
           /\ AwaitingDeposit(shipments[reqs[r].resi])
           /\ reqs[r].resi \notin lockers[reqs[r].lockerId].pendingResi)
          => reqs'[r].pc = "findShipment"
       /\ (/\ reqs[r].op \in DepositOps
           /\ reqs[r].pc = "saveLocker"
           /\ reqs'[r].resp = "ok")
          => reqs[r].resi \notin lockers'[reqs[r].lockerId].pendingResi]_vars

\* The shipment of tracking number x is registered for locker l and is not
\* awaiting deposit
NotAwaitingAt(x, l) ==
  /\ x \in DOMAIN shipments
  /\ shipments[x].lockerId = l
  /\ shipments[x].status # "pending_locker"

\* C9: a deposit-token or deposit-resi call that finds the shipment at its
\* locker in a status other than pending_locker is answered InvalidState with
\* that status and writes nothing; no other step answers InvalidState.
C9_InvalidStateRejected ==
  [][\A r \in ReqIds :
       /\ (/\ reqs[r].op \in ResiDepositOps
           /\ reqs[r].pc = "findShipment"
           /\ Acts(r)
           /\ NotAwaitingAt(reqs[r].resi, reqs[r].lockerId))
          => /\ reqs'[r].pc = "done"
             /\ reqs'[r].resp = "InvalidState"
             /\ reqs'[r].info = shipments[reqs[r].resi].status
             /\ UNCHANGED <<lockers, shipments, nextToken, now>>
       /\ (Acts(r) /\ reqs'[r].resp = "InvalidState")
          => /\ reqs[r].pc = "findShipment"
             /\ NotAwaitingAt(reqs[r].resi, reqs[r].lockerId)]_vars

\* A second deposit of a tracking number that is already in the locker was
\* answered InvalidState with the status delivered_to_locker
C9_Witness ==
  \E r \in ReqIds :
    /\ reqs[r].op \in ResiDepositOps /\ reqs[r].pc = "done"
    /\ reqs[r].resp = "InvalidState"
    /\ reqs[r].info = "delivered_to_locker"
    /\ shipments[reqs[r].resi].status = "delivered_to_locker"

\* C10: one enqueued command is returned by at most one poll; createdAt tells
\* two commands apart.
C10_CommandReturnedOnce ==
  \A r1, r2 \in ReqIds :
    (/\ r1 # r2
     /\ reqs[r1].op = "command" /\ reqs[r1].pc = "done" /\ reqs[r1].resp = "open"
     /\ reqs[r2].op = "command" /\ reqs[r2].pc = "done" /\ reqs[r2].resp = "open")
    => reqs[r1].cmd # reqs[r2].cmd

\* The submit in slot r ends in this step because its loop over the
\* candidate carriers is exhausted: its last provider call failed too
Exhausted(r) ==
  /\ reqs[r].op = "submit" /\ reqs[r].pc = "callProvider"
  /\ reqs'[r].pc = "done"

\* C11: a submit that missed the cache, whose tracking number matches a
\* high-confidence pattern (twelve digits, JT + digits) and whose candidate
\* carriers all failed at the provider is accepted all the same: it answers
\* success and a validated record of its requester is written.
C11_HighConfidenceFallback ==
  [][\A r \in ReqIds :
       (Exhausted(r) /\ detectCourierType(reqs[r].resi) # "")
       => /\ reqs'[r].resp = "ok"
          /\ \E i \in DOMAIN trackings' :
               /\ trackings'[i].resi = reqs[r].resi
               /\ trackings'[i].customerId = reqs[r].user
               /\ trackings'[i].validated]_vars

\* C12: a submit that missed the cache, whose tracking number matches no
\* high-confidence pattern and whose candidate carriers all failed at the
\* provider fails with NotFound, and no record is created.
C12_ExhaustedNotFound ==
  [][\A r \in ReqIds :
       (Exhausted(r) /\ detectCourierType(reqs[r].resi) = "")
       => /\ reqs'[r].resp = "NotFound"
          /\ UNCHANGED trackings]_vars

\* The session of locker l has its readings and its shipment has a weight
WeightRecorded(l) ==
  /\ sessions[l].id # 0
  /\ Len(sessions[l].readings) >= 2
  /\ sessions[l].resi \in DOMAIN shipments
  /\ shipments[sessions[l].resi].weight # NoWeight

\* C13: a finalize call for a locker whose session's shipment already has
\* its weight recorded succeeds, also when it is the second such call, and
\* leaves the stored weight as it is.
C13_FinalizeIdempotent ==
  [][\A r \in ReqIds :
       (/\ reqs[r].pc = "done" /\ Acts(r)
        /\ reqs'[r].op = "weightFinalize"
        /\ WeightRecorded(reqs'[r].lockerId))
       => /\ reqs'[r].resp # "NoSession"
          /\ UNCHANGED shipments]_vars

\* The finalize in slot r writes the package weight in this step
RecordsWeight(r) ==
  /\ reqs[r].op = "weightFinalize" /\ reqs[r].pc = "saveShipment"
  /\ reqs'[r].pc = "done" /\ reqs'[r].resp = "ok"

FirstReading(l) == sessions[l].readings[1]

LastReading(l) == sessions[l].readings[Len(sessions[l].readings)]

\* |a - b| without a sign test
Distance(a, b) == IF a >= b THEN a - b ELSE b - a

\* C14: the weight a finalize stores is exactly the absolute difference of
\* the first and the last reading of the session.
C14_DifferentialWeight ==
  [][\A r \in ReqIds :
       RecordsWeight(r)
       => shipments'[reqs[r].resi].weight =
            Distance(FirstReading(reqs[r].lockerId), LastReading(reqs[r].lockerId))]_vars

\* C14 (amended): the weight a finalize stores and returns is the absolute
\* difference of the first and the last reading of the session rounded to a
\* whole gram (three decimals of a kilogram): a multiple of a gram within half
\* a gram of that difference, whatever the readings in between and whether
\* the readings rise or fall.
C14_DifferentialWeightRounded ==
  [][\A r \in ReqIds :
       RecordsWeight(r)
       => LET d == Distance(FirstReading(reqs[r].lockerId), LastReading(reqs[r].lockerId))
              w == shipments'[reqs[r].resi].weight
          IN /\ w % 10 = 0
             /\ 2 * Distance(w, d) <= 10
             /\ reqs'[r].pkg = w]_vars

\* A finalize stored a weight for a session of three readings whose middle
\* reading lies outside the range of the first and the last, and the stored
\* weight is not the unrounded difference
C14_Witness ==
  \E r \in ReqIds :
    LET l == reqs[r].lockerId rd == sessions[l].readings IN
    /\ reqs[r].op = "weightFinalize" /\ reqs[r].pc = "done"
    /\ reqs[r].resp = "ok" /\ reqs[r].info = ""
    /\ Len(rd) = 3
    /\ rd[2] > rd[1] /\ rd[2] > rd[3]
    /\ shipments[reqs[r].resi].weight = reqs[r].pkg
    /\ reqs[r].pkg # Distance(rd[1], rd[3])

\* The records of requester u for tracking number x
OwnRecords(x, u) ==
  {i \in DOMAIN trackings : trackings[i].resi = x /\ trackings[i].customerId = u}

\* C15: a submit whose duplicate lookup runs when its requester already has
\* a record of the tracking number ends there as AlreadySubmitted: it never
\* reaches the cache lookup or a provider call, and it creates no record.
C15_DuplicateSubmissionGuard ==
  [][\A r \in ReqIds :
       (/\ reqs[r].op = "submit" /\ reqs[r].pc = "findExisting" /\ Acts(r)
        /\ OwnRecords(reqs[r].resi, reqs[r].user) # {})
       => /\ reqs'[r].pc = "done"
          /\ reqs'[r].resp = "AlreadySubmitted"
          /\ UNCHANGED <<trackings, now>>]_vars

\* A requester's second submit of a number was turned away, and the
\* requester still has exactly the one record
C15_Witness ==
  \E r \in ReqIds :
    /\ reqs[r].op = "submit" /\ reqs[r].pc = "done"
    /\ reqs[r].resp = "AlreadySubmitted"
    /\ Cardinality(OwnRecords(reqs[r].resi, reqs[r].user)) = 1

\* C16: once the provider has confirmed a carrier for a submit, the submit
\* answers success with that carrier and snapshot, whether or not the write
\* of the validation record succeeds.
C16_CacheWriteBestEffort ==
  [][\A r \in ReqIds :
       (reqs[r].op = "submit" /\ reqs[r].pc = "createRecord" /\ Acts(r))
       => /\ reqs'[r].resp = "ok"
          /\ reqs'[r].carrier = reqs[r].carrier
          /\ reqs'[r].data = reqs[r].data]_vars

\* C17: every command poll and every heartbeat call that is answered for a
\* locker has written that locker's lastHeartbeat.
C17_PollAndHeartbeatStamp ==
  [][\A r \in ReqIds :
       (/\ reqs[r].op \in {"command", "heartbeat"}
        /\ reqs[r].pc # "done" /\ reqs'[r].pc = "done"
        /\ reqs'[r].resp # "LockerNotFound")
       => lockers'[reqs[r].lockerId].heartbeat]_vars

\* C18: a submit whose tracking number the carrier detector recognises puts
\* its provider calls to the detected carrier only.
C18_SingleCandidate ==
  \A r \in ReqIds :
    (/\ reqs[r].op = "submit" /\ reqs[r].pc = "callProvider"
     /\ detectCourierType(reqs[r].resi) # "")
    => SubmitPriority[reqs[r].idx] = detectCourierType(reqs[r].resi)

\* The delivery history of locker l has an entry for tracking number x
InHistory(l, x) ==
  \E i \in 1..Len(lockers[l].courierHistory) : lockers[l].courierHistory[i].resi = x

\* C19: no deposit call has ended, by a failed store write or otherwise,
\* with its shipment written as delivered_to_locker while the locker still
\* holds the token it presented, no open command and no history entry of the
\* tracking number.
C19_DepositPersistsTogether ==
  \A r \in ReqIds :
    (/\ reqs[r].op \in DepositOps /\ reqs[r].pc = "done"
     /\ reqs[r].resp = "InternalError")
    => ~(/\ shipments[reqs[r].resi].status = "delivered_to_locker"
         /\ lockers[reqs[r].lockerId].lockerToken = reqs[r].token
         /\ lockers[reqs[r].lockerId].command = NoCmd
         /\ ~InHistory(reqs[r].lockerId, reqs[r].resi))

\* The deposit in slot r succeeds at locker l in this step
DepositSucceeds(r, l) ==
  /\ reqs[r].op \in DepositOps /\ reqs[r].pc = "saveLocker"
  /\ reqs[r].lockerId = l
  /\ reqs'[r].pc = "done" /\ reqs'[r].resp = "ok"

FinalizesActive(r) ==
  /\ reqs[r].pc = "done" /\ Acts(r)
  /\ reqs'[r].op = "weightFinalize"
  /\ sessions[reqs'[r].lockerId].id # 0
  /\ sessions[reqs'[r].lockerId].active

\* C21: a finalize on an active session that holds fewer than two readings
\* fails with InsufficientReadings at once, and the shipments (weight,
\* weightRecordedAt, event log) are as they were.
C21_InsufficientReadings ==
  [][\A r \in ReqIds :
       (FinalizesActive(r) /\ Len(sessions[reqs'[r].lockerId].readings) < 2)
       => /\ reqs'[r].pc = "done"
          /\ reqs'[r].resp = "InsufficientReadings"
          /\ UNCHANGED shipments]_vars

\* A finalize was turned away for a session of one reading whose shipment
\* has no weight
C21_Witness ==
  \E r \in ReqIds :
    LET l == reqs[r].lockerId IN
    /\ reqs[r].op = "weightFinalize" /\ reqs[r].pc = "done"
    /\ reqs[r].resp = "InsufficientReadings"
    /\ sessions[l].id # 0 /\ sessions[l].active
    /\ Len(sessions[l].readings) = 1
    /\ sessions[l].resi \in DOMAIN shipments
    /\ shipments[sessions[l].resi].weight = NoWeight
    /\ shipments[sessions[l].resi].logs = <<"assigned_to_locker">>

\* The command stored for locker l; a locker without a document has none
StoredCommand(l) == IF l \in DOMAIN lockers THEN lockers[l].command ELSE NoCmd

\* The command stored for locker l after the step
StoredCommandAfter(l) == IF l \in DOMAIN lockers' THEN lockers'[l].command ELSE NoCmd

\* Slot r completes a successful deposit in this step
DepositCompletes(r) ==
  /\ reqs[r].op \in DepositOps /\ reqs[r].pc = "saveLocker"
  /\ reqs'[r].pc = "done" /\ reqs'[r].resp = "ok"

\* Slot r completes a command poll in this step
PollCompletes(r) == reqs[r].op = "command" /\ Acts(r) /\ reqs'[r].pc = "done"

\* C22: with the requests handled one after the other, a successful deposit
\* of T at L stores the command open with T for L; the stored command stays
\* until a poll for L or another deposit at L; the poll that finds a command
\* stored returns it (open, T) and leaves none stored, and a poll that finds
\* none stored returns none.
C22_OpenCommandOneShot ==
  [][/\ \A r \in ReqIds :
          LET l == reqs[r].lockerId
              c == StoredCommand(l)
          IN
          /\ DepositCompletes(r)
               => /\ StoredCommandAfter(l).type = "open"
                  /\ StoredCommandAfter(l).resi = reqs[r].resi
                  /\ reqs[r].token = lockers[l].lockerToken
          /\ PollCompletes(r)
               => /\ reqs'[r].resp = c.type
                  /\ reqs'[r].info = c.resi
                  /\ StoredCommandAfter(l) = NoCmd
     /\ \A k \in LockerIds :
          StoredCommandAfter(k) # StoredCommand(k)
          => \E r \in ReqIds :
               /\ reqs[r].lockerId = k
               /\ DepositCompletes(r) \/ PollCompletes(r)]_vars

\* The poll after a deposit of R1 at L1 returned open with R1, no command is
\* left stored, and the deposit presented a token of the locker
C22_Witness ==
  /\ reqs["q1"].op = "command" /\ reqs["q1"].pc = "done"
  /\ reqs["q1"].lockerId = "L1"
  /\ reqs["q1"].resp = "open" /\ reqs["q1"].info = "R1"
  /\ lockers["L1"].command = NoCmd
  /\ InHistory("L1", "R1")
  /\ \E i \in DOMAIN lockers["L1"].courierHistory :
       lockers["L1"].courierHistory[i].usedToken # NoToken

\* Locker l has a session, started by an earlier call, that is still active
\* and that this step ends or replaces
SessionEnds(l) ==
  /\ sessions[l].id # 0 /\ sessions[l].active
  /\ ~(sessions'[l].id = sessions[l].id /\ sessions'[l].active)

\* C23: an active weight session for locker L and tracking number T is
\* preceded by a successful deposit of T at L (which the delivery history of
\* L records), and a session ends only by a finalize or by a new session for
\* L.
C23_SessionFollowsDeposit ==
  [][\A l \in LockerIds :
       /\ (sessions'[l].id # 0 /\ sessions'[l].active)
          => /\ l \in DOMAIN lockers'
             /\ \E i \in DOMAIN lockers'[l].courierHistory :
                  lockers'[l].courierHistory[i].resi = sessions'[l].resi
       /\ SessionEnds(l)
          => \E r \in ReqIds :
               /\ Acts(r) /\ reqs'[r].lockerId = l
               /\ reqs'[r].op \in {"weightFinalize", "weightStart"}]_vars

\* Slot r's submit gets the provider's answer for one candidate in this step
SubmitCalls(r) == reqs[r].op = "submit" /\ reqs[r].pc = "callProvider" /\ Acts(r)

LaterCandidates(i, j) ==
  {k \in (i + 1)..Len(SubmitPriority) :
     SubmitPriority[k] = "jne" => (Len(j) = 5 /\ \A n \in DOMAIN j : j[n] < 10)}

CandidateList(q) ==
  IF q.op = "submit" THEN SubmitPriority ELSE RevalidatePriority(q.resi)

\* jneNumber j is five digits
FiveDigits(j) == Len(j) = 5 /\ {j[n] : n \in DOMAIN j} \subseteq 0..9

\* C26: the loop of a submit or a revalidation passes over jne without a call
\* when the jneNumber is missing or is not five digits, and over nothing
\* else: the candidate a call is made for is jne only with a five-digit
\* jneNumber, which the request keeps; the positions between two calls, before
\* the first call and after the last one are those of jne without such a
\* number.
C26_JneSkippedWithoutNumber ==
  [][\A r \in ReqIds :
       LET q == reqs[r]
           p == reqs'[r]
           list == CandidateList(p)
           from == IF q.pc = "callProvider" THEN q.idx ELSE 0
           skipped(k) == list[k] = "jne" /\ ~FiveDigits(p.jne)
       IN
       (Acts(r) /\ p.op \in {"submit", "revalidate"})
       => /\ p.pc = "callProvider"
               => /\ p.idx \in (from + 1)..Len(list)
                  /\ \A k \in (from + 1)..(p.idx - 1) : skipped(k)
                  /\ ~skipped(p.idx)
                  /\ q.pc # "done" => p.jne = q.jne
          /\ (q.pc = "callProvider" /\ p.pc = "done")
               => \A k \in (from + 1)..Len(list) : skipped(k)]_vars

\* A revalidation of a J&T number with a jneNumber of three digits is at its
\* second call, for the third candidate: the call for jnt failed and jne was
\* passed over
C26_Witness ==
  \E r \in ReqIds :
    /\ reqs[r].op = "revalidate" /\ reqs[r].pc = "callProvider"
    /\ reqs[r].jne = <<1, 2, 3>>
    /\ RevalidatePriority(reqs[r].resi)[2] = "jne"
    /\ reqs[r].idx = 3
    /\ reqs[r].seen # ""

\* needsRevalidation: the record has no carrier or is not validated
CarrierUnknown(rec) == rec.courierType \in {"", "unknown"} \/ ~rec.validated

\* Slot r takes a step of a revalidation
Revalidates(r) == Acts(r) /\ reqs'[r].op = "revalidate"

\* C27: a revalidation creates and deletes no record; it goes on past the
\* lookup only for an existing record whose carrier is unknown; its success
\* overwrites that record, and no other, with the confirmed carrier and
\* snapshot; a revalidation that fails leaves the records as they are.
C27_RevalidateInPlace ==
  [][\A r \in ReqIds :
       Revalidates(r)
       => /\ Len(trackings') = Len(trackings)
          /\ reqs'[r].pc = "callProvider" /\ reqs[r].pc = "findTracking"
               => CarrierUnknown(trackings[reqs'[r].rec])
          /\ reqs'[r].resp = "ok"
               => /\ trackings'[reqs[r].rec].courierType = reqs[r].carrier
                  /\ trackings'[reqs[r].rec].data = reqs[r].data
                  /\ trackings'[reqs[r].rec].resi = reqs[r].resi
                  /\ \A i \in DOMAIN trackings :
                       i # reqs[r].rec => trackings'[i] = trackings[i]
          /\ reqs'[r].resp # "ok" => UNCHANGED trackings]_vars

\* The rejections of a deposit's validation
DepositFailures ==
  {"LockerNotFound", "TokenInvalid", "WrongLocker", "ShipmentNotFound", "InvalidState"}

\* The lookups of deposit-token and deposit-resi, up to the status check
ValidationSteps == {"findLocker", "findShipment", "findShipmentAny"}

\* C28: with the requests handled one after the other, a deposit-token or
\* deposit-resi call that fails with LockerNotFound, TokenInvalid,
\* WrongLocker, ShipmentNotFound or InvalidState has written nothing: such a
\* failure ends the call in one of its lookup steps, and from the arrival of
\* the call through its lookups no step changes a locker or a shipment.
C28_FailedDepositWritesNothing ==
  [][\A r \in ReqIds :
       (Acts(r) /\ reqs'[r].op \in ResiDepositOps)
       => /\ (reqs'[r].pc = "done" /\ reqs'[r].resp \in DepositFailures)
               => reqs[r].op = reqs'[r].op /\ reqs[r].pc \in ValidationSteps
          /\ reqs[r].pc \in ValidationSteps \cup {"done"}
               => UNCHANGED <<lockers, shipments>>]_vars

\* A deposit was turned away as InvalidState for a shipment that an earlier
\* deposit delivered; the command and the history entry of that deposit and
\* the shipment's log are in place
C28_Witness ==
  \E r \in ReqIds :
    LET l == reqs[r].lockerId x == reqs[r].resi IN
    /\ reqs[r].op \in ResiDepositOps /\ reqs[r].pc = "done"
    /\ reqs[r].resp = "InvalidState"
    /\ lockers[l].command.type = "open" /\ lockers[l].command.resi = x
    /\ x \notin lockers[l].pendingResi
    /\ InHistory(l, x)
    /\ shipments[x].status = "delivered_to_locker"
    /\ shipments[x].logs = <<"assigned_to_locker", "delivered_to_locker">>

\* Locker l is registered and the token t is not its current one
WrongToken(l, t) ==
  /\ l \in DOMAIN lockers
  /\ lockers[l].lockerToken = NoToken \/ lockers[l].lockerToken # t

\* C29: with the requests handled one after the other, deposit-token and
\* deposit-resi check in the order locker, token, shipment at this locker,
\* status, and the first check that fails makes the error: a wrong token is
\* TokenInvalid whatever the shipment's locker or status is, with neither
\* expectedLockerId nor currentStatus in the response; WrongLocker (with the
\* expected locker), ShipmentNotFound and InvalidState (with the status)
\* are answered only to a call whose locker exists and whose token matches,
\* and InvalidState only for a shipment assigned to this locker.
C29_CheckOrder ==
  [][\A r \in ReqIds :
       LET q == reqs[r] p == reqs'[r] l == q.lockerId x == q.resi IN
       (Acts(r) /\ q.op \in ResiDepositOps /\ q.pc # "done")
       => /\ (q.pc = "findLocker" /\ l \notin DOMAIN lockers)
               => p.pc = "done" /\ p.resp = "LockerNotFound" /\ p.info = ""
          /\ (q.pc = "findLocker" /\ WrongToken(l, q.token))
               => p.pc = "done" /\ p.resp = "TokenInvalid" /\ p.info = ""
          /\ p.resp \in {"WrongLocker", "ShipmentNotFound", "InvalidState"}
               => /\ l \in DOMAIN lockers /\ ~WrongToken(l, q.token)
                  /\ p.resp = "WrongLocker"
                       => AtOtherLocker(x, l) /\ p.info = shipments[x].lockerId
                  /\ p.resp = "ShipmentNotFound" => x \notin DOMAIN shipments
                  /\ p.resp = "InvalidState"
                       => /\ x \in DOMAIN shipments /\ shipments[x].lockerId = l
                          /\ shipments[x].status # "pending_locker"
                          /\ p.info = shipments[x].status]_vars

\* A deposit with a wrong token at a registered locker was answered
\* TokenInvalid, without detail, although its shipment is assigned to another
\* locker and is no longer awaiting deposit
C29_Witness ==
  \E r \in ReqIds :
    LET l == reqs[r].lockerId x == reqs[r].resi IN
    /\ reqs[r].op \in ResiDepositOps /\ reqs[r].pc = "done"
    /\ reqs[r].resp = "TokenInvalid" /\ reqs[r].info = ""
    /\ WrongToken(l, reqs[r].token)
    /\ AtOtherLocker(x, l)
    /\ shipments[x].status # "pending_locker"

\* 0 to 50 kg
InRange(w) == w \in 0..MaxReadingWeight

\* Slot r receives and answers a weight reading in this step; a reading that
\* repeats the slot's previous one shows in the session only
ReadingArrives(r) ==
  /\ reqs[r].pc = "done"
  /\ reqs'[r].op = "weightReading"
  /\ Acts(r) \/ (reqs[r].op = "weightReading" /\ sessions' # sessions)

\* C30: with the calls handled one after the other, the readings of a session
\* grow only by a reading call for its locker that arrives while the session
\* is active and carries a value from 0 to 50 kg, and by exactly that value;
\* a reading that arrives when its locker has no session or a finalized one,
\* or with a value outside the range, is rejected and changes no session.
C30_ReadingOnlyWhileActive ==
  [][/\ \A l \in LockerIds :
          (sessions'[l].id = sessions[l].id /\ sessions'[l].readings # sessions[l].readings)
          => \E r \in ReqIds :
               /\ ReadingArrives(r) /\ reqs'[r].lockerId = l
               /\ reqs'[r].resp = "ok"
               /\ sessions[l].id # 0 /\ sessions[l].active
               /\ InRange(reqs'[r].weight)
               /\ sessions'[l].readings = Append(sessions[l].readings, reqs'[r].weight)
     /\ \A r \in ReqIds :
          LET l == reqs'[r].lockerId IN
          ReadingArrives(r)
          => /\ ~InRange(reqs'[r].weight)
                  => reqs'[r].resp = "ValidationError" /\ UNCHANGED sessions
             /\ (InRange(reqs'[r].weight) /\ (sessions[l].id = 0 \/ ~sessions[l].active))
                  => reqs'[r].resp = "NoSession" /\ UNCHANGED sessions]_vars

\* A reading in range was turned away because the session of its locker,
\* which holds its readings, has been finalized
C30_Witness ==
  \E r \in ReqIds :
    LET l == reqs[r].lockerId IN
    /\ reqs[r].op = "weightReading" /\ reqs[r].pc = "done"
    /\ reqs[r].resp = "NoSession"
    /\ InRange(reqs[r].weight)
    /\ sessions[l].id # 0 /\ ~sessions[l].active
    /\ Len(sessions[l].readings) >= 2

\* C31: with the calls handled one after the other, a start that is accepted
\* gives the locker a new session, active, without readings, for the given
\* tracking number, whatever session the locker had; a session comes into
\* being in no other way; and a finalize takes its weight from the readings
\* of the session the locker has when it arrives, so that readings accepted
\* before the last start do not enter it.
C31_StartReplacesSession ==
  [][/\ \A l \in LockerIds :
          sessions'[l].id # sessions[l].id
          => /\ sessions'[l].active
             /\ sessions'[l].readings = << >>
             /\ \E r \in ReqIds :
                  /\ reqs'[r].op = "weightStart" /\ reqs'[r].lockerId = l
                  /\ reqs'[r].resp = "ok"
                  /\ sessions'[l].resi = reqs'[r].info
     /\ \A r \in ReqIds :
          LET l == reqs'[r].lockerId IN
          /\ (Acts(r) /\ reqs'[r].op = "weightStart" /\ reqs'[r].resp = "ok")
               => sessions'[l].id # sessions[l].id
          /\ (Acts(r) /\ reqs'[r].op = "weightFinalize" /\ reqs'[r].pc = "findShipment")
               => /\ reqs'[r].sid = sessions[l].id
                  /\ reqs'[r].resi = sessions[l].resi
                  /\ reqs'[r].pkg % 10 = 0
                  /\ 2 * Distance(reqs'[r].pkg, Distance(FirstReading(l), LastReading(l))) <= 10]_vars

\* A finalize stored the weight of a second session of the locker, which a
\* start had opened while the first session held readings; the weight is
\* that of the second session's readings alone
C31_Witness ==
  \E r \in ReqIds :
    LET l == reqs[r].lockerId rd == sessions[l].readings IN
    /\ reqs[r].op = "weightFinalize" /\ reqs[r].pc = "done"
    /\ reqs[r].resp = "ok" /\ reqs[r].info = ""
    /\ sessions[l].id = 2
    /\ rd = <<50000, 43004>>
    /\ shipments[reqs[r].resi].weight = 7000

\* The shipment of tracking number x has a recorded weight
HasWeight(x) == x \in DOMAIN shipments /\ shipments[x].weight # NoWeight

\* C32: a finalize whose session's shipment has a recorded weight answers
\* success when it has looked the shipment up, and no step of a finalize
\* changes a shipment that has a recorded weight (its weight,
\* weightRecordedAt and event log).
C32_RecordedWeightKept ==
  [][\A r \in ReqIds :
       (Acts(r) /\ reqs[r].op = "weightFinalize" /\ reqs[r].pc # "done"
          /\ HasWeight(reqs[r].resi))
       => /\ UNCHANGED shipments
          /\ reqs'[r].pc = "done" /\ reqs'[r].resp = "ok"]_vars

\* Slot r's open request writes its command in this step
OpenCompletes(r) ==
  /\ reqs[r].op = "openLocker" /\ reqs[r].pc = "updateLocker"
  /\ reqs'[r].pc = "createLog"

\* C33: with the requests handled one after the other, a locker has one
\* stored command: a deposit or an open request that succeeds puts its own
\* command in the place of whatever was stored, polled or not, and a poll
\* returns the command that is stored when it arrives and no other, so that
\* the command of the earlier of two writers is not returned once the later
\* one has written.
C33_LastWriterWins ==
  [][\A r \in ReqIds :
       LET l == reqs[r].lockerId
           after == StoredCommandAfter(l)
       IN
       /\ DepositCompletes(r)
            => /\ after.type = "open" /\ after.resi = reqs[r].resi
               /\ after.source = "courier_token"
       /\ OpenCompletes(r)
            => /\ after.type = "open" /\ after.resi = reqs[r].resi
               /\ after.source = "customer"
       /\ PollCompletes(r)
            => /\ reqs'[r].resp = StoredCommand(l).type
               /\ reqs'[r].info = StoredCommand(l).resi
               /\ reqs'[r].cmd = StoredCommand(l)
               /\ after = NoCmd]_vars

\* The poll returned the customer's open command for R2, requested while
\* the command of the deposit of R1 was stored or after it was polled; R2
\* itself has not been deposited
C33_Witness ==
  /\ reqs["q1"].op = "command" /\ reqs["q1"].pc = "done"
  /\ reqs["q1"].resp = "open" /\ reqs["q1"].info = "R2"
  /\ reqs["q1"].cmd.source = "customer"
  /\ InHistory("L1", "R1") /\ ~InHistory("L1", "R2")
  /\ lockers["L1"].command = NoCmd

\* Slot r's request is an open request of the customer who owns its
\* shipment, which is assigned to locker l
OwnerAsks(r, l) ==
  /\ reqs[r].op = "openLocker"
  /\ reqs[r].resi \in DOMAIN shipments
  /\ shipments[reqs[r].resi].lockerId = l
  /\ reqs[r].user = ShipmentCustomer

\* C34: an open command for tracking number T comes to be stored for a
\* locker only in the step in which a deposit of T at that locker succeeds
\* or an open request of the customer who owns T is carried out; a deposit
\* that fails leaves the stored command as it is; and a poll returns open
\* with T only as the command it read from the locker.
C34_OpenOnlyAfterDepositOrRequest ==
  [][/\ \A l \in LockerIds :
          (StoredCommandAfter(l) # StoredCommand(l) /\ StoredCommandAfter(l).type = "open")
          => \E r \in ReqIds :
               /\ reqs[r].lockerId = l
               /\ StoredCommandAfter(l).resi = reqs[r].resi
               /\ DepositCompletes(r) \/ (OpenCompletes(r) /\ OwnerAsks(r, l))
     /\ \A r \in ReqIds :
          LET l == reqs[r].lockerId IN
          /\ (reqs[r].op \in DepositOps /\ Acts(r) /\ reqs'[r].pc = "done"
                 /\ reqs'[r].resp # "ok")
               => StoredCommandAfter(l) = StoredCommand(l)
          /\ (reqs[r].op = "command" /\ reqs[r].pc = "getLocker" /\ Acts(r))
               => reqs'[r].cmd = StoredCommand(l)
          /\ (PollCompletes(r) /\ reqs'[r].resp = "open")
               => /\ reqs[r].pc = "saveLocker"
                  /\ reqs[r].cmd.type = "open"
                  /\ reqs'[r].info = reqs[r].cmd.resi]_vars

\* A poll returned the open command that the owner of R1 requested; R1 was
\* never deposited
C34_Witness ==
  \E r \in ReqIds :
    /\ reqs[r].op = "command" /\ reqs[r].pc = "done"
    /\ reqs[r].resp = "open" /\ reqs[r].info = "R1"
    /\ reqs[r].cmd.source = "customer"
    /\ ~InHistory("L1", "R1")
    /\ shipments["R1"].status = "pending_locker"

\* C35: the command that a deposit stored is cleared only by a poll whose
\* response carries that command: whenever a step leaves a locker without
\* the deposit's command it had stored, the step completes a poll for that
\* locker and the command the poll returns is the one that was stored.
C35_ClearedOnlyWhenReturned ==
  [][\A l \in LockerIds :
       (/\ StoredCommand(l).type = "open"
        /\ StoredCommand(l).source = "courier_token"
        /\ StoredCommandAfter(l) = NoCmd)
       => \E r \in ReqIds :
            /\ PollCompletes(r) /\ reqs[r].lockerId = l
            /\ reqs'[r].resp = StoredCommand(l).type
            /\ reqs'[r].info = StoredCommand(l).resi
            /\ reqs'[r].cmd = StoredCommand(l)]_vars

\* The positions of the delivered_to_locker events in the log of shipment x
Deliveries(x) ==
  {i \in DOMAIN shipments[x].logs : shipments[x].logs[i] = "delivered_to_locker"}

\* The entries for tracking number x in the delivery history of locker l
HistoryEntries(l, x) ==
  {i \in DOMAIN lockers[l].courierHistory : lockers[l].courierHistory[i].resi = x}

\* C36: the event log of a shipment holds at most one delivered_to_locker
\* event, and the delivery histories of the lockers hold at most one entry
\* for its tracking number.
C36_DepositedAtMostOnce ==
  \A x \in DOMAIN shipments :
    /\ Cardinality(Deliveries(x)) <= 1
    /\ \A l \in DOMAIN lockers :
         /\ Cardinality(HistoryEntries(l, x)) <= 1
         /\ \A k \in DOMAIN lockers :
              (HistoryEntries(l, x) # {} /\ HistoryEntries(k, x) # {}) => k = l

\* C37: there is at most one validation record for a tracking number and a
\* requester.
C37_OneRecordPerRequester ==
  \A i \in DOMAIN trackings : \A k \in DOMAIN trackings :
    (trackings[i].resi = trackings[k].resi
       /\ trackings[i].customerId = trackings[k].customerId)
    => i = k

\* C38: all validated records of one tracking number carry the same
\* carrier.
C38_ValidatedRecordsAgree ==
  \A i \in DOMAIN trackings : \A k \in DOMAIN trackings :
    (trackings[i].resi = trackings[k].resi
       /\ trackings[i].validated /\ trackings[k].validated)
    => trackings[i].courierType = trackings[k].courierType

\* C39: a shipment whose status is still pending_locker has no recorded
\* weight (weight null).
C39_WeightOnlyAfterDeposit ==
  \A x \in DOMAIN shipments :
    shipments[x].status = "pending_locker" => shipments[x].weight = NoWeight

\* C40: every submit in flight ends with a response, whatever the provider
\* answers on each call, and each provider call of a submit either ends the
\* loop or moves the loop to a later candidate of the list, so that no
\* candidate is put to the provider twice.
C40_SubmitTerminates ==
  /\ \A r \in ReqIds :
       (reqs[r].op = "submit" /\ reqs[r].pc # "done")
         ~> (reqs[r].op = "submit" /\ reqs[r].pc = "done" /\ reqs[r].resp # "")
  /\ [][\A r \in ReqIds :
          SubmitCalls(r)
          => /\ reqs[r].idx \in 1..Len(SubmitPriority)
             /\ \/ reqs'[r].pc \in {"createRecord", "done"}
                \/ /\ reqs'[r].pc = "callProvider"
                   /\ reqs'[r].idx > reqs[r].idx
                   /\ reqs'[r].idx <= Len(SubmitPriority)]_vars

\* A submit with a usable JNE number is about to put the last candidate of
\* the list to the provider: the call for every earlier candidate has
\* failed, the last of them with a 404
C40_Witness ==
  \E r \in ReqIds :
    /\ reqs[r].op = "submit" /\ reqs[r].pc = "callProvider"
    /\ reqs[r].jne = <<1, 2, 3, 4, 5>>
    /\ reqs[r].idx = Len(SubmitPriority)
    /\ reqs[r].seen = "notFound"


====
